---------------------------- MODULE Spec2Model ----------------------------
(***************************************************************************)
(* Control-signal conditioning of the Plaits-for-Daisy firmware.           *)
(*                                                                         *)
(* Numbers.  The firmware computes on 32-bit floats in the normalized      *)
(* control range [0,1].  The model computes on a fixed-point grid of       *)
(* 0.001: the integer n stands for n/1000, so 1.0f is One = 1000,          *)
(* 0.03f is 30 and 0.005f is 5.  A filter coefficient is a fraction        *)
(* [num, den].  A product is rounded to the nearest grid point (as a float *)
(* product is rounded to the nearest float); a one-pole filter increment   *)
(* that is not zero is rounded away from zero, so that the filter keeps    *)
(* moving toward its input down to the grid's resolution, as the float     *)
(* filter does down to its own, much finer, resolution.                    *)
(***************************************************************************)
EXTENDS Integers, Sequences, FiniteSets, TLC

VARIABLES
    \* --- one KnobCatcher driven call by call (specification Spec)
    kc,      \* the KnobCatcher under test: its six private fields
    pre,     \* the same catcher as it was before the last call
    call,    \* the last call: [op, arg, out]
    pagev,   \* argument of the OnPageChange that began the current waiting
             \* phase, NoValue when the catcher is not waiting
    lastAdc, \* raw ADC reading of the last Process call, NoValue when none
    held,    \* TRUE while, since the last OnPageChange, only Process was
             \* called and always with the raw reading of the call before
    ticks,   \* Process calls since the last Init/Reset of a catcher whose
             \* filter lags (coefficient < 1)
    \* --- plaits_daisy.cpp (specification SpecDaisy)
    current_mode,           \* UIMode
    previous_mode,          \* main's local UIMode previous_mode
    current_page,           \* ParameterPage, 0..2
    previous_page,
    param_catchers_ready,
    settings,               \* the Settings record inside storage
    play_mode_catchers,     \* KnobCatcherBank<4>
    param_mode_catchers,    \* KnobCatcherBank<4>
    knob_lp,                \* float knob_lp[4]
    patch,                  \* transposition and the patch fields the knobs drive
    saved_play_mode_values, \* float saved_play_mode_values[4]
    page_values,            \* main's local float page_values[4] / reset_values[4]
    led,                    \* the LedController
    button,                 \* button_b7 and toggle_b8 as of the last Debounce
    ui,                     \* button_was_pressed, long_press_triggered,
                            \* settings_dirty, cal_step, cal_low_voltage,
                            \* cal_high_voltage
    pc,                     \* where the main loop stands: [at, i]
    audio,                  \* what the audio callback did, for the properties
    \* --- one KnobCatcherBank<4> driven call by call (specification SpecBank)
    catchers_,     \* catchers_[4]
    bankPre,  \* the bank as it was before the last call
    bankCall, \* the last call: [op, index, values, out] and the calls so far
    \* --- CVInput::ProcessWithMapping applied to inputs (specification SpecCv)
    cvParam,  \* the Parameter handed to ProcessWithMapping
    cvArgs,   \* [knob_value, cv_value]
    cvResult, \* what ProcessWithMapping returned, NoValue before the call
    \* --- one Parameter driven call by call (specification SpecParameter)
    parameter,     \* the Parameter
    paramPre,  \* the Parameter as it was before the last call
    paramCall, \* the last call: [op, arg, out]
    \* --- the MenuState (specifications SpecMenu and SpecPlaits)
    menu,      \* MenuState menu
    menuPre,   \* the MenuState as it was before the last call
    menuCall,  \* the last call on it
    \* --- plaits/main.cpp with plaits_port.cpp (specification SpecPlaits)
    params_,              \* PlaitsPort::params_[9]
    current_bank_,        \* PlaitsPort::current_bank_
    patch_,               \* the plaits::Patch that UpdatePatchFromParams fills
    cv_inputs,            \* CVInputBank: raw_values_, filtered_values_, filters_
    encoder_button_last,
    port,                 \* the last step: [op, pre, arg], and the audio
                          \* callbacks and encoder events so far
    \* --- the encoder of plaits/main.cpp (specification SpecEncoder)
    encoder               \* the encoder's switch as ProcessAllControls left
                          \* it, and the press in progress

catcherVars == <<kc, pre, call, pagev, lastAdc, held, ticks>>

daisyVars ==
    <<current_mode, previous_mode, current_page, previous_page,
      param_catchers_ready, settings, play_mode_catchers, param_mode_catchers,
      knob_lp, patch, saved_play_mode_values, page_values, led, button, ui,
      pc, audio>>

bankVars == <<catchers_, bankPre, bankCall>>

cvVars == <<cvParam, cvArgs, cvResult>>

paramVars == <<parameter, paramPre, paramCall>>

menuVars == <<menu, menuPre, menuCall>>

portVars ==
    <<params_, current_bank_, patch_, cv_inputs, encoder_button_last, port,
      encoder>>

uiVars == <<bankVars, cvVars, paramVars, menuVars, portVars>>

vars == <<catcherVars, daisyVars, uiVars>>

-----------------------------------------------------------------------------
(* Fixed-point helpers                                                     *)

One == 1000

NoValue == 0 - 1

Abs(x) == IF x < 0 THEN 0 - x ELSE x

Sign(x) == IF x < 0 THEN 0 - 1 ELSE IF x > 0 THEN 1 ELSE 0

\* a / b rounded to the nearest integer, halves away from zero (b > 0)
RoundDiv(a, b) == Sign(a) * ((2 * Abs(a) + b) \div (2 * b))

\* a / b rounded away from zero (b > 0)
CeilDiv(a, b) == Sign(a) * ((Abs(a) + b - 1) \div b)

Clamp(x, lo, hi) == IF x < lo THEN lo ELSE IF x > hi THEN hi ELSE x

-----------------------------------------------------------------------------
(* knob_catcher.h                                                          *)

KNOB_TRACKING == "KNOB_TRACKING"
KNOB_WAITING == "KNOB_WAITING"
KNOB_CATCHING_UP == "KNOB_CATCHING_UP"

kMovementThreshold == 30
kMinDelta == 5
kCatchUpThreshold == 5

\* a filter that divides by its coefficient instead of multiplying
ONE_POLE_Inverted(out, in, coeff) ==
    out + CeilDiv(coeff.den * (in - out), coeff.num)

\* ONE_POLE(out, in, coefficient): out += coefficient * (in - out)
ONE_POLE(out, in, coeff) == out + CeilDiv(coeff.num * (in - out), coeff.den)

\* void Reset()
Reset(k) ==
    [k EXCEPT !.state_ = KNOB_TRACKING,
              !.filtered_value_ = 0,
              !.stored_value_ = 0,
              !.previous_value_ = 0]

\* void Init(float lp_coeff, bool use_catchup); the fields have no value
\* before it, so it builds the whole record
KnobInit(lp_coeff, use_catchup) ==
    [state_ |-> KNOB_TRACKING,
     lp_coefficient_ |-> lp_coeff,
     use_catchup_ |-> use_catchup,
     filtered_value_ |-> 0,
     stored_value_ |-> 0,
     previous_value_ |-> 0]

\* void OnPageChange(float current_param_value)
OnPageChange(k, current_param_value) ==
    [k EXCEPT !.stored_value_ = current_param_value,
              !.state_ = KNOB_WAITING]

\* void ForceTracking()
ForceTracking_Reset(k) == Reset(k)

ForceTracking(k) == [k EXCEPT !.state_ = KNOB_TRACKING]

\* a movement test that compares against kMinDelta
KnobMoved_MinDelta(filtered, previous) == Abs(filtered - previous) > kMinDelta

\* fabsf(filtered_value_ - previous_value_) > kMovementThreshold
KnobMoved(filtered, previous) == Abs(filtered - previous) > kMovementThreshold

\* fabsf(filtered_value_ - previous_value_) > kMinDelta
StillMoving(filtered, previous) == Abs(filtered - previous) > kMinDelta

\* fabsf(stored_value_ - filtered_value_) < kCatchUpThreshold
CaughtUp(stored, filtered) == Abs(stored - filtered) < kCatchUpThreshold

\* a skew ratio with the two directions exchanged
SkewRatio_Swapped(stored, previous, delta) ==
    LET raw == IF delta > 0
               THEN [num |-> 1 + stored, den |-> 1 + previous]
               ELSE [num |-> (One + 1) - stored, den |-> (One + 1) - previous]
    IN  IF 10 * raw.num < raw.den THEN [num |-> 1, den |-> 10]
        ELSE IF raw.num > 10 * raw.den THEN [num |-> 10, den |-> 1]
        ELSE raw

\* the skew ratio as a fraction [num, den], clamped to [0.1, 10]
SkewRatio(stored, previous, delta) ==
    LET raw == IF delta > 0
               THEN [num |-> (One + 1) - stored, den |-> (One + 1) - previous]
               ELSE [num |-> 1 + stored, den |-> 1 + previous]
    IN  IF 10 * raw.num < raw.den THEN [num |-> 1, den |-> 10]
        ELSE IF raw.num > 10 * raw.den THEN [num |-> 10, den |-> 1]
        ELSE raw

\* case KNOB_TRACKING of Process; k already holds the new filtered value
ProcessTracking(k) ==
    [k |-> [k EXCEPT !.previous_value_ = k.filtered_value_],
     out |-> k.filtered_value_]

\* a waiting case that returns the filtered value on the tick it starts
\* catching up
ProcessWaiting_SnapOutput(k) ==
    IF KnobMoved(k.filtered_value_, k.previous_value_)
    THEN [k |-> [k EXCEPT !.state_ = IF k.use_catchup_ THEN KNOB_CATCHING_UP
                                     ELSE KNOB_TRACKING,
                          !.previous_value_ = k.filtered_value_],
          out |-> k.filtered_value_]
    ELSE [k |-> k, out |-> k.stored_value_]

\* a waiting case that ignores use_catchup_ and always starts catching up
ProcessWaiting_AlwaysCatchUp(k) ==
    IF KnobMoved(k.filtered_value_, k.previous_value_)
    THEN [k |-> [k EXCEPT !.state_ = KNOB_CATCHING_UP,
                          !.previous_value_ = k.filtered_value_],
          out |-> k.stored_value_]
    ELSE [k |-> k, out |-> k.stored_value_]

\* case KNOB_WAITING of Process
ProcessWaiting(k) ==
    IF KnobMoved(k.filtered_value_, k.previous_value_)
    THEN IF k.use_catchup_
         THEN [k |-> [k EXCEPT !.state_ = KNOB_CATCHING_UP,
                               !.previous_value_ = k.filtered_value_],
               out |-> k.stored_value_]
         ELSE [k |-> [k EXCEPT !.state_ = KNOB_TRACKING,
                               !.previous_value_ = k.filtered_value_],
               out |-> k.filtered_value_]
    ELSE [k |-> k, out |-> k.stored_value_]

AdvanceStored_Unclamped(stored_value_, skew_ratio, delta) ==
    stored_value_ + RoundDiv(skew_ratio.num * delta, skew_ratio.den)

\* lines 128-132: stored_value_ += skew_ratio * delta, clamped to [0, 1]
AdvanceStored(stored_value_, skew_ratio, delta) ==
    Clamp(stored_value_ + RoundDiv(skew_ratio.num * delta, skew_ratio.den),
          0, One)

\* a catching-up case that moves stored a tenth of the way to the filtered
\* value on every tick, whether or not the knob is moving
ProcessCatchingUp_Linear(k) ==
    LET stored == k.stored_value_
                    + CeilDiv(k.filtered_value_ - k.stored_value_, 10)
    IN  [k |-> [k EXCEPT !.stored_value_ = stored,
                         !.state_ = IF CaughtUp(stored, k.filtered_value_)
                                    THEN KNOB_TRACKING
                                    ELSE KNOB_CATCHING_UP,
                         !.previous_value_ = k.filtered_value_],
         out |-> stored]

\* case KNOB_CATCHING_UP of Process
ProcessCatchingUp(k) ==
    IF StillMoving(k.filtered_value_, k.previous_value_)
    THEN LET delta == k.filtered_value_ - k.previous_value_
             skew_ratio == SkewRatio(k.stored_value_, k.previous_value_, delta)
             stored == AdvanceStored(k.stored_value_, skew_ratio, delta)
         IN  [k |-> [k EXCEPT !.stored_value_ = stored,
                              !.state_ = IF CaughtUp(stored, k.filtered_value_)
                                         THEN KNOB_TRACKING
                                         ELSE KNOB_CATCHING_UP,
                              !.previous_value_ = k.filtered_value_],
              out |-> stored]
    ELSE [k |-> k, out |-> k.stored_value_]

\* float Process(float adc_value): the new catcher and the returned value
Process(k, adc_value) ==
    LET f == [k EXCEPT !.filtered_value_ =
                  ONE_POLE(k.filtered_value_, adc_value, k.lp_coefficient_)]
    IN  CASE f.state_ = KNOB_TRACKING -> ProcessTracking(f)
          [] f.state_ = KNOB_WAITING -> ProcessWaiting(f)
          [] f.state_ = KNOB_CATCHING_UP -> ProcessCatchingUp(f)
          [] OTHER -> [k |-> f, out |-> f.filtered_value_]

-----------------------------------------------------------------------------
(* KnobCatcherBank<4> (knob_catcher.h) and led_controller.h                *)

Knobs == 0 .. 3

\* void KnobCatcherBank::Init(float lp_coeff, bool use_catchup)
BankInit(lp_coeff, use_catchup) == [i \in Knobs |-> KnobInit(lp_coeff, use_catchup)]

\* void KnobCatcherBank::OnPageChange(const float* current_values)
BankOnPageChange(b, current_values) ==
    [i \in Knobs |-> OnPageChange(b[i], current_values[i + 1])]

BankProcess_Shared(b, index, adc_value) ==
    [i \in Knobs |-> Process(b[index], adc_value).k]

\* float KnobCatcherBank::Process(int index, float adc_value): the bank after
BankProcess(b, index, adc_value) ==
    [b EXCEPT ![index] = Process(b[index], adc_value).k]

\* void KnobCatcherBank::ForceAllTracking()
ForceAllTracking(b) == [i \in Knobs |-> ForceTracking(b[i])]

\* void KnobCatcherBank::Reset()
BankReset(b) == [i \in Knobs |-> Reset(b[i])]

kEnginesPerBank == 8
kNumBanks == 3
kTotalEngines == 24

\* LedController::LedController()
LedController ==
    [engine_ |-> 0, bank_ |-> 0, bank_indication_active_ |-> FALSE,
     bank_indication_start_ms_ |-> 0]

\* void LedController::SetGlobalEngine(int global_engine)
SetGlobalEngine(l, global_engine) ==
    LET g == global_engine % kTotalEngines
    IN  [l EXCEPT !.bank_ = g \div kEnginesPerBank,
                  !.engine_ = g % kEnginesPerBank]

\* the value NextEngine returns: true if it wrapped to engine 0
NextEngineWrapped(l) == l.engine_ + 1 >= kEnginesPerBank

NextEngine_StopsAtLast(l) ==
    [l EXCEPT !.engine_ = IF NextEngineWrapped(l) THEN @ ELSE @ + 1]

\* bool LedController::NextEngine()
NextEngine(l) ==
    [l EXCEPT !.engine_ = IF NextEngineWrapped(l) THEN 0 ELSE @ + 1]

\* void LedController::StartBankIndication()
StartBankIndication(l) ==
    [l EXCEPT !.bank_indication_active_ = TRUE,
              !.bank_indication_start_ms_ = 0]

\* void LedController::NextBank()
NextBank(l) ==
    StartBankIndication([l EXCEPT !.bank_ = (l.bank_ + 1) % kNumBanks])

\* float LedController::Update(uint32_t current_time_ms), as far as it
\* changes the controller.  The time stamp is kept as 0 (not taken yet) or
\* 1 (taken); expired says that kBankIndicationDurationMs have passed since
\* it was taken, which they cannot have at the call that takes it
Update(l, expired) ==
    LET stamped == IF l.bank_indication_active_
                      /\ l.bank_indication_start_ms_ = 0
                   THEN [l EXCEPT !.bank_indication_start_ms_ = 1]
                   ELSE l
    IN  IF l.bank_indication_active_ /\ l.bank_indication_start_ms_ # 0
           /\ expired
        THEN [stamped EXCEPT !.bank_indication_active_ = FALSE]
        ELSE stamped

\* int LedController::GetGlobalEngine()
GetGlobalEngine(l) == l.bank_ * kEnginesPerBank + l.engine_

-----------------------------------------------------------------------------
(* plaits_daisy.cpp                                                        *)
(*                                                                         *)
(* The audio callback is an interrupt: it runs to completion at any point  *)
(* between two steps of the main loop.  The main loop is cut into steps at *)
(* its accesses to what the callback reads or writes: current_mode,        *)
(* current_page, param_catchers_ready, settings, the two catcher banks,    *)
(* transposition and the patch.  A bank's OnPageChange is a loop over its  *)
(* four catchers and is one step per catcher.  The call sites pass a       *)
(* second argument (the current ADC readings) that the OnPageChange of     *)
(* knob_catcher.h does not take; the model calls OnPageChange as           *)
(* knob_catcher.h defines it.                                              *)

MODE_PLAY == "MODE_PLAY"
MODE_PARAMETERS == "MODE_PARAMETERS"
MODE_CALIBRATION == "MODE_CALIBRATION"

PAGE_ATTENUVERTERS == 0
PAGE_LPG_ENVELOPE == 1
PAGE_TUNING == 2
PAGE_COUNT == 3

CAL_WAITING_LOW == "CAL_WAITING_LOW"
CAL_WAITING_HIGH == "CAL_WAITING_HIGH"
CAL_DONE == "CAL_DONE"

ENV_DRONE == 0
ENV_PING == 1
ENV_EXTERNAL == 2

\* void Settings::Defaults(); voct_scale in 0.001 semitone per ADC unit
Defaults ==
    [fm_amount |-> 0,
     timbre_mod_amount |-> 0,
     morph_mod_amount |-> 0,
     harmonics_mod_amount |-> 0,
     decay |-> 500,
     lpg_colour |-> 500,
     output_level |-> 700,
     envelope_mode |-> ENV_PING,
     octave_range |-> 4,
     fine_tune |-> 0,
     voct_offset |-> 500,
     voct_scale |-> 120000]

\* constexpr float kKnobLpCoeff[4]
kKnobLpCoeff(i) == IF i < 2 THEN [num |-> 5, den |-> 1000]
                   ELSE [num |-> 1, den |-> 100]

\* the coefficient main passes to both banks' Init
kCatcherLpCoeff == [num |-> 1, den |-> 100]

\* void GetPageParameterValues(ParameterPage page, float* values).  In
\* binary32 (n / 8.99f) * 8.99f is exactly n for n in 0..9, so that the
\* callback's static_cast<int>(knob_val[0] * 8.99f) gives back n; on the grid
\* of One the quotient is rounded up, which keeps the product from falling
\* below n as rounding to nearest would for n = 1, 2, 5 and 6.
GetPageParameterValues(page, st) ==
    CASE page = PAGE_ATTENUVERTERS ->
            <<RoundDiv(st.fm_amount + One, 2),
              RoundDiv(st.timbre_mod_amount + One, 2),
              RoundDiv(st.morph_mod_amount + One, 2),
              RoundDiv(st.harmonics_mod_amount + One, 2)>>
      [] page = PAGE_LPG_ENVELOPE ->
            <<st.decay, st.lpg_colour, st.output_level, 500>>
      [] page = PAGE_TUNING ->
            <<CeilDiv(st.octave_range * 100 * One, 899),
              RoundDiv(st.fine_tune + One, 2), 500, 500>>
      [] OTHER -> <<500, 500, 500, 500>>

\* void GetPlayModeParameterValues(float* values)
GetPlayModeParameterValues(p) ==
    <<RoundDiv(p.transposition + One, 2), p.harmonics, p.timbre, p.morph>>

\* the settings fields the Parameters branch of AudioCallback assigns on a page
PageFields(page) ==
    CASE page = PAGE_ATTENUVERTERS ->
            {"fm_amount", "timbre_mod_amount", "morph_mod_amount",
             "harmonics_mod_amount"}
      [] page = PAGE_LPG_ENVELOPE -> {"decay", "lpg_colour", "output_level"}
      [] page = PAGE_TUNING -> {"octave_range", "fine_tune"}
      [] OTHER -> {}

\* switch (current_page) of AudioCallback: knob_val committed to settings
CommitKnobs(page, st, knob_val) ==
    CASE page = PAGE_ATTENUVERTERS ->
            [st EXCEPT !.fm_amount = knob_val[0] * 2 - One,
                       !.timbre_mod_amount = knob_val[1] * 2 - One,
                       !.morph_mod_amount = knob_val[2] * 2 - One,
                       !.harmonics_mod_amount = knob_val[3] * 2 - One]
      [] page = PAGE_LPG_ENVELOPE ->
            [st EXCEPT !.decay = knob_val[0],
                       !.lpg_colour = knob_val[1],
                       !.output_level = knob_val[2]]
      [] page = PAGE_TUNING ->
            [st EXCEPT !.octave_range = (knob_val[0] * 899) \div (100 * One),
                       !.fine_tune = knob_val[1] * 2 - One]
      [] OTHER -> st

\* the raw readings of the four knobs at one audio callback
DaisyAdcReadings == {<<500, 500, 500, 500>>, <<900, 500, 100, 500>>}

\* the raw readings of CV_5 at a calibration capture
Cv5Readings == {100, 600, 650, 800}

\* the audio callback is followed for this many runs
MaxAudioTicks == 2

\* the button is followed for this many presses
MaxPresses == 2

\* and for this many when they lead through a calibration: the long press
\* that enters it, two captures, and the press that leaves it
MaxCalPresses == 4

At(where) == [at |-> where, i |-> 0]

NoAudio == [ticks |-> 0, wrote |-> {}, stale |-> FALSE, raced |-> FALSE,
            by_audio |-> {}, by_main |-> {}, save |-> "none", presses |-> 0,
            saves |-> 0, entered |-> "none", cal_prior |-> <<>>,
            last_play |-> <<500, 500, 500, 500>>, raw |-> <<>>,
            moved |-> FALSE, shown |-> <<>>, reset |-> "none",
            blocked |-> FALSE, longs |-> 0, shorts |-> 0, reached |-> FALSE,
            budget |-> MaxPresses]

\* the state at the first iteration of main's loop, with the history a
DaisyBootWith(a) ==
    /\ current_mode = MODE_PLAY
    /\ previous_mode = MODE_PLAY
    /\ current_page = PAGE_ATTENUVERTERS
    /\ previous_page = PAGE_ATTENUVERTERS
    /\ param_catchers_ready = TRUE
    /\ settings = Defaults
    /\ play_mode_catchers = BankInit(kCatcherLpCoeff, TRUE)
    /\ param_mode_catchers = BankInit(kCatcherLpCoeff, FALSE)
    /\ knob_lp = [i \in Knobs |-> 0]
    /\ patch = [transposition |-> 0, harmonics |-> 500, timbre |-> 500,
                morph |-> 500, engine |-> 0]
    /\ saved_play_mode_values = <<500, 500, 500, 500>>
    /\ page_values = <<0, 0, 0, 0>>
    /\ led = SetGlobalEngine(LedController, 0)
    /\ button = [b7_pressed |-> FALSE, b7_rising |-> FALSE,
                 b7_falling |-> FALSE, b7_held_long |-> FALSE,
                 b8_pressed |-> FALSE]
    /\ ui = [button_was_pressed |-> FALSE, long_press_triggered |-> FALSE,
             settings_dirty |-> FALSE, cal_step |-> CAL_WAITING_LOW,
             cal_low_voltage |-> 0, cal_high_voltage |-> 0]
    /\ pc = At("loop")
    /\ audio = a

DaisyBoot == DaisyBootWith(NoAudio)

\* void AudioCallback(...): one run of the interrupt
AudioCallback ==
    /\ audio.ticks < MaxAudioTicks
    /\ \E raw \in DaisyAdcReadings :
          LET lp == [i \in Knobs |->
                        ONE_POLE(knob_lp[i], raw[i + 1], kKnobLpCoeff(i))]
          IN  /\ knob_lp' = lp
              /\ IF current_mode = MODE_PLAY
                 THEN LET r == [i \in Knobs |-> Process(play_mode_catchers[i], lp[i])]
                      IN  /\ play_mode_catchers' = [i \in Knobs |-> r[i].k]
                          /\ patch' = [patch EXCEPT
                                          !.transposition = r[0].out * 2 - One,
                                          !.harmonics = r[1].out,
                                          !.timbre = r[2].out,
                                          !.morph = r[3].out]
                          /\ audio' = [audio EXCEPT
                                          !.ticks = @ + 1,
                                          !.wrote = {},
                                          !.raced = FALSE,
                                          !.last_play =
                                              IF previous_mode = MODE_PLAY
                                              THEN GetPlayModeParameterValues(patch')
                                              ELSE @,
                                          !.blocked = FALSE,
                                          !.raw = raw,
                                          !.moved = @ \/ (audio.raw # <<>>
                                                           /\ raw # audio.raw),
                                          !.reset = IF @ = "done" THEN "ticked"
                                                    ELSE @]
                          /\ UNCHANGED <<param_mode_catchers, settings>>
                 ELSE LET r == [i \in Knobs |-> Process(param_mode_catchers[i], lp[i])]
                          knob_val == [i \in Knobs |-> r[i].out]
                          wrote == IF param_catchers_ready
                                   THEN PageFields(current_page) ELSE {}
                      IN  /\ param_mode_catchers' = [i \in Knobs |-> r[i].k]
                          /\ settings' = IF param_catchers_ready
                                         THEN CommitKnobs(current_page, settings, knob_val)
                                         ELSE settings
                          /\ patch' = [patch EXCEPT !.transposition = 0]
                          /\ audio' = [audio EXCEPT
                                          !.ticks = @ + 1,
                                          !.wrote = wrote,
                                          !.raced = (audio.stale /\ wrote # {}),
                                          !.by_audio = @ \cup wrote,
                                          !.blocked = ~param_catchers_ready,
                                          !.raw = raw,
                                          !.moved = @ \/ (audio.raw # <<>>
                                                           /\ raw # audio.raw),
                                          !.reset = IF @ = "done" THEN "ticked"
                                                    ELSE @]
                          /\ UNCHANGED play_mode_catchers
    /\ UNCHANGED <<current_mode, previous_mode, current_page, previous_page,
                   param_catchers_ready, saved_play_mode_values, page_values,
                   led, button, ui, pc>>
    /\ UNCHANGED <<catcherVars, uiVars>>

\* one catcher of a bank's OnPageChange loop, and where the loop goes next
SeedNext(after) ==
    IF pc.i < 3 THEN [pc EXCEPT !.i = @ + 1] ELSE At(after)

DetectMode_IgnoresCalibration(mode, b8_is_down) ==
    IF b8_is_down THEN MODE_PARAMETERS ELSE MODE_PLAY

\* lines 661-664: the mode follows the toggle unless calibrating
DetectMode(mode, b8_is_down) ==
    IF mode # MODE_CALIBRATION
    THEN (IF b8_is_down THEN MODE_PARAMETERS ELSE MODE_PLAY)
    ELSE mode

\* led.Update(now_ms) at the end of the iteration before (line 860), then
\* button_b7.Debounce(); toggle_b8.Debounce(); then the mode detection
MainLoopTop ==
    /\ pc.at = "loop"
    /\ \E expired \in (IF led.bank_indication_active_ THEN BOOLEAN
                        ELSE {FALSE}) :
          led' = Update(led, expired)
    /\ \E b7 \in BOOLEAN, b8 \in BOOLEAN, long \in BOOLEAN :
          LET rising == b7 /\ ~button.b7_pressed
              mode == DetectMode(current_mode, b8)
          IN  /\ rising => audio.presses < (IF current_mode = MODE_CALIBRATION
                                            THEN MaxCalPresses
                                            ELSE audio.budget)
              /\ button' = [b7_pressed |-> b7,
                            b7_rising |-> rising,
                            b7_falling |-> (~b7 /\ button.b7_pressed),
                            b7_held_long |-> (b7 /\ ~rising
                                              /\ (long \/ button.b7_held_long)),
                            b8_pressed |-> b8]
              /\ current_mode' = mode
              /\ audio' = [audio EXCEPT
                              !.saves = 0,
                              !.entered = "none",
                              !.presses = IF rising THEN @ + 1 ELSE @,
                              !.longs = IF rising \/ (~b7 /\ ~button.b7_pressed)
                                        THEN 0 ELSE @,
                              !.shorts = 0,
                              !.reached = IF b7
                                          THEN ~rising /\ (long \/ button.b7_held_long)
                                          ELSE button.b7_pressed /\ @,
                              !.stale = @ \/ (current_mode = MODE_PLAY
                                              /\ mode = MODE_PARAMETERS),
                              !.moved = IF mode # current_mode THEN FALSE
                                        ELSE @,
                              !.shown = IF mode = current_mode THEN @
                                        ELSE IF mode = MODE_PARAMETERS
                                        THEN settings ELSE <<>>]
    /\ pc' = At("mode_transition")
    /\ UNCHANGED <<previous_mode, current_page, previous_page,
                   param_catchers_ready, settings, play_mode_catchers,
                   param_mode_catchers, knob_lp, patch, saved_play_mode_values,
                   page_values, ui>>
    /\ UNCHANGED <<catcherVars, uiVars>>

\* lines 667-676 and 687: the mode transition is detected; entering
\* Parameters mode first saves the play mode values
ModeTransition ==
    /\ pc.at = "mode_transition"
    /\ IF current_mode # previous_mode /\ current_mode # MODE_CALIBRATION
       THEN IF current_mode = MODE_PLAY
            THEN /\ pc' = At("enter_play_seed")
                 /\ audio' = [audio EXCEPT !.entered = "play"]
                 /\ UNCHANGED saved_play_mode_values
            ELSE /\ saved_play_mode_values' = GetPlayModeParameterValues(patch)
                 /\ audio' = [audio EXCEPT !.entered = "params"]
                 /\ pc' = At("enter_params_get")
       ELSE /\ pc' = At("page_transition")
            /\ UNCHANGED <<saved_play_mode_values, audio>>
    /\ UNCHANGED <<current_mode, previous_mode, current_page, previous_page,
                   param_catchers_ready, settings, play_mode_catchers,
                   param_mode_catchers, knob_lp, patch, page_values, led,
                   button, ui>>
    /\ UNCHANGED <<catcherVars, uiVars>>

\* line 679: play_mode_catchers.OnPageChange(saved_play_mode_values, ...)
EnterPlaySeed ==
    /\ pc.at = "enter_play_seed"
    /\ play_mode_catchers' =
          [play_mode_catchers EXCEPT
              ![pc.i] = OnPageChange(@, saved_play_mode_values[pc.i + 1])]
    /\ pc' = SeedNext("enter_play_save")
    /\ UNCHANGED <<current_mode, previous_mode, current_page, previous_page,
                   param_catchers_ready, settings, param_mode_catchers,
                   knob_lp, patch, saved_play_mode_values, page_values, led,
                   button, ui, audio>>
    /\ UNCHANGED <<catcherVars, uiVars>>

EnterPlaySave_KeepsDirty ==
    /\ pc.at = "enter_play_save"
    /\ previous_mode' = current_mode
    /\ pc' = At("page_transition")
    /\ UNCHANGED <<current_mode, current_page, previous_page,
                   param_catchers_ready, settings, play_mode_catchers,
                   param_mode_catchers, knob_lp, patch, saved_play_mode_values,
                   page_values, led, button, ui, audio>>
    /\ UNCHANGED <<catcherVars, uiVars>>

\* lines 682-683 and 695: storage.Save(); settings_dirty = false
EnterPlaySave ==
    /\ pc.at = "enter_play_save"
    /\ audio' = [audio EXCEPT !.save = "enter_play", !.saves = @ + 1]
    /\ ui' = [ui EXCEPT !.settings_dirty = FALSE]
    /\ previous_mode' = current_mode
    /\ pc' = At("page_transition")
    /\ UNCHANGED <<current_mode, current_page, previous_page,
                   param_catchers_ready, settings, play_mode_catchers,
                   param_mode_catchers, knob_lp, patch, saved_play_mode_values,
                   page_values, led, button>>
    /\ UNCHANGED <<catcherVars, uiVars>>

\* lines 690-691: GetPageParameterValues(current_page, page_values)
EnterParamsGet ==
    /\ pc.at = "enter_params_get"
    /\ page_values' = GetPageParameterValues(current_page, settings)
    /\ pc' = At("enter_params_seed")
    /\ UNCHANGED <<current_mode, previous_mode, current_page, previous_page,
                   param_catchers_ready, settings, play_mode_catchers,
                   param_mode_catchers, knob_lp, patch, saved_play_mode_values,
                   led, button, ui, audio>>
    /\ UNCHANGED <<catcherVars, uiVars>>

\* line 692: param_mode_catchers.OnPageChange(page_values, ...)
EnterParamsSeed ==
    /\ pc.at = "enter_params_seed"
    /\ param_mode_catchers' =
          [param_mode_catchers EXCEPT
              ![pc.i] = OnPageChange(@, page_values[pc.i + 1])]
    /\ pc' = SeedNext("enter_params_ready")
    /\ UNCHANGED <<current_mode, previous_mode, current_page, previous_page,
                   param_catchers_ready, settings, play_mode_catchers,
                   knob_lp, patch, saved_play_mode_values, page_values, led,
                   button, ui, audio>>
    /\ UNCHANGED <<catcherVars, uiVars>>

\* lines 693 and 695: param_catchers_ready = true
EnterParamsReady ==
    /\ pc.at = "enter_params_ready"
    /\ param_catchers_ready' = TRUE
    /\ previous_mode' = current_mode
    /\ audio' = [audio EXCEPT !.stale = FALSE]
    /\ pc' = At("page_transition")
    /\ UNCHANGED <<current_mode, current_page, previous_page, settings,
                   play_mode_catchers, param_mode_catchers, knob_lp, patch,
                   saved_play_mode_values, page_values, led, button, ui>>
    /\ UNCHANGED <<catcherVars, uiVars>>

\* lines 699-702: a page change is detected and the new page's values read
PageTransition ==
    /\ pc.at = "page_transition"
    /\ IF current_mode = MODE_PARAMETERS /\ current_page # previous_page
       THEN /\ page_values' = GetPageParameterValues(current_page, settings)
            /\ pc' = At("page_seed")
       ELSE /\ pc' = At("buttons")
            /\ UNCHANGED page_values
    /\ UNCHANGED <<current_mode, previous_mode, current_page, previous_page,
                   param_catchers_ready, settings, play_mode_catchers,
                   param_mode_catchers, knob_lp, patch, saved_play_mode_values,
                   led, button, ui, audio>>
    /\ UNCHANGED <<catcherVars, uiVars>>

\* line 709: param_mode_catchers.OnPageChange(page_values, ...)
PageSeed ==
    /\ pc.at = "page_seed"
    /\ param_mode_catchers' =
          [param_mode_catchers EXCEPT
              ![pc.i] = OnPageChange(@, page_values[pc.i + 1])]
    /\ pc' = SeedNext("page_ready")
    /\ UNCHANGED <<current_mode, previous_mode, current_page, previous_page,
                   param_catchers_ready, settings, play_mode_catchers,
                   knob_lp, patch, saved_play_mode_values, page_values, led,
                   button, ui, audio>>
    /\ UNCHANGED <<catcherVars, uiVars>>

PageReady_KeepsFlag ==
    /\ pc.at = "page_ready"
    /\ previous_page' = current_page
    /\ audio' = [audio EXCEPT !.stale = FALSE]
    /\ pc' = At("buttons")
    /\ UNCHANGED <<current_mode, previous_mode, current_page, settings,
                   param_catchers_ready, play_mode_catchers,
                   param_mode_catchers, knob_lp, patch,
                   saved_play_mode_values, page_values, led, button, ui>>
    /\ UNCHANGED <<catcherVars, uiVars>>

\* lines 710-711: previous_page = current_page; param_catchers_ready = true
PageReady ==
    /\ pc.at = "page_ready"
    /\ previous_page' = current_page
    /\ param_catchers_ready' = TRUE
    /\ audio' = [audio EXCEPT !.stale = FALSE]
    /\ pc' = At("buttons")
    /\ UNCHANGED <<current_mode, previous_mode, current_page, settings,
                   play_mode_catchers, param_mode_catchers, knob_lp, patch,
                   saved_play_mode_values, page_values, led, button, ui>>
    /\ UNCHANGED <<catcherVars, uiVars>>

\* lines 721-774: the rising edge arms the press; a press held for
\* kLongPressThresholdMs triggers the long-press action of the mode, once
ButtonHold ==
    /\ pc.at = "buttons"
    /\ LET was_pressed == button.b7_rising \/ ui.button_was_pressed
           triggered == ~button.b7_rising /\ ui.long_press_triggered
           fire == was_pressed /\ button.b7_pressed /\ ~triggered
                      /\ button.b7_held_long
           armed == [ui EXCEPT !.button_was_pressed = was_pressed,
                               !.long_press_triggered = triggered \/ fire]
           acted == [audio EXCEPT !.longs = IF @ < 2 THEN @ + 1 ELSE @]
       IN  IF ~fire
           THEN /\ ui' = armed
                /\ pc' = At("falling")
                /\ UNCHANGED <<current_mode, settings, led, patch, audio>>
           ELSE CASE current_mode = MODE_PLAY ->
                       /\ led' = NextBank(led)
                       /\ patch' = [patch EXCEPT !.engine = GetGlobalEngine(led')]
                       /\ ui' = armed
                       /\ pc' = At("falling")
                       /\ audio' = acted
                       /\ UNCHANGED <<current_mode, settings>>
                  [] current_mode = MODE_PARAMETERS
                        /\ current_page = PAGE_ATTENUVERTERS ->
                       /\ settings' = [settings EXCEPT
                                          !.fm_amount = 0,
                                          !.timbre_mod_amount = 0,
                                          !.morph_mod_amount = 0,
                                          !.harmonics_mod_amount = 0]
                       /\ audio' = [acted EXCEPT
                                       !.by_main = @ \cup
                                           PageFields(PAGE_ATTENUVERTERS),
                                       !.shown = <<>>,
                                       !.reset = "seeding"]
                       /\ ui' = armed
                       /\ pc' = At("reset_seed")
                       /\ UNCHANGED <<current_mode, led, patch>>
                  [] current_mode = MODE_PARAMETERS
                        /\ current_page = PAGE_LPG_ENVELOPE ->
                       /\ settings' = [settings EXCEPT
                                          !.envelope_mode = (@ + 1) % 3]
                       /\ audio' = [acted EXCEPT
                                       !.by_main = @ \cup {"envelope_mode"}]
                       /\ ui' = [armed EXCEPT !.settings_dirty = TRUE]
                       /\ pc' = At("falling")
                       /\ UNCHANGED <<current_mode, led, patch>>
                  [] current_mode = MODE_PARAMETERS
                        /\ current_page = PAGE_TUNING ->
                       /\ current_mode' = MODE_CALIBRATION
                       /\ ui' = [armed EXCEPT !.cal_step = CAL_WAITING_LOW]
                       /\ pc' = At("falling")
                       /\ audio' = acted
                       /\ UNCHANGED <<settings, led, patch>>
                  [] OTHER ->
                       /\ current_mode' = MODE_PARAMETERS
                       /\ ui' = armed
                       /\ pc' = At("falling")
                       /\ audio' = acted
                       /\ UNCHANGED <<settings, led, patch>>
    /\ UNCHANGED <<previous_mode, current_page, previous_page,
                   param_catchers_ready, play_mode_catchers,
                   param_mode_catchers, knob_lp, saved_play_mode_values,
                   page_values, button>>
    /\ UNCHANGED <<catcherVars, uiVars>>

\* the reset_values of the long press on the attenuverter page
reset_values == <<500, 500, 500, 500>>

\* line 752: param_mode_catchers.OnPageChange(reset_values, ...)
ResetSeed ==
    /\ pc.at = "reset_seed"
    /\ param_mode_catchers' =
          [param_mode_catchers EXCEPT
              ![pc.i] = OnPageChange(@, reset_values[pc.i + 1])]
    /\ pc' = SeedNext("falling")
    /\ audio' = [audio EXCEPT !.reset = IF pc.i < 3 THEN @ ELSE "done"]
    /\ UNCHANGED <<current_mode, previous_mode, current_page, previous_page,
                   param_catchers_ready, settings, play_mode_catchers,
                   knob_lp, patch, saved_play_mode_values, page_values, led,
                   button, ui>>
    /\ UNCHANGED <<catcherVars, uiVars>>

CalibrationCapture_AlwaysWrites(cv5_adc) ==
    LET adc_delta == cv5_adc - ui.cal_low_voltage
        divisor == IF adc_delta = 0 THEN 1 ELSE Abs(adc_delta)
    IN  /\ settings' = [settings EXCEPT
                           !.voct_scale = RoundDiv(24 * One * One, divisor),
                           !.voct_offset = ui.cal_low_voltage
                                             - RoundDiv(adc_delta, 2)]
        /\ audio' = [audio EXCEPT
                        !.by_main = @ \cup {"voct_scale", "voct_offset"},
                        !.save = "calibration",
                        !.saves = @ + 1,
                        !.shorts = IF @ < 2 THEN @ + 1 ELSE @,
                        !.cal_prior = <<settings.voct_offset,
                                        settings.voct_scale>>]
        /\ ui' = [ui EXCEPT !.cal_high_voltage = cv5_adc,
                            !.cal_step = CAL_DONE,
                            !.button_was_pressed = FALSE,
                            !.long_press_triggered = FALSE]

\* lines 802-837: the second calibration capture
CalibrationCapture(cv5_adc) ==
    LET adc_delta == cv5_adc - ui.cal_low_voltage
        valid == adc_delta > 50 /\ adc_delta < 500
    IN  /\ settings' = IF valid
                       THEN [settings EXCEPT
                                !.voct_scale = RoundDiv(24 * One * One, adc_delta),
                                !.voct_offset = ui.cal_low_voltage
                                                  - RoundDiv(adc_delta, 2)]
                       ELSE settings
        /\ audio' = IF valid
                    THEN [audio EXCEPT
                             !.by_main = @ \cup {"voct_scale", "voct_offset"},
                             !.save = "calibration",
                             !.saves = @ + 1,
                             !.shorts = IF @ < 2 THEN @ + 1 ELSE @,
                             !.cal_prior = <<settings.voct_offset,
                                             settings.voct_scale>>]
                    ELSE [audio EXCEPT
                             !.shorts = IF @ < 2 THEN @ + 1 ELSE @,
                             !.cal_prior = <<settings.voct_offset,
                                             settings.voct_scale>>]
        /\ ui' = [ui EXCEPT !.cal_high_voltage = cv5_adc,
                            !.cal_step = CAL_DONE,
                            !.button_was_pressed = FALSE,
                            !.long_press_triggered = FALSE]

\* lines 776-849: the falling edge; a press that triggered no long press is
\* a short press and acts according to the mode
ShortPress_IgnoresLong(u) == u.button_was_pressed

\* line 777: the press being released is a short press
ShortPress(u) == u.button_was_pressed /\ ~u.long_press_triggered

ButtonRelease ==
    /\ pc.at = "falling"
    /\ pc' = At("loop")
    /\ LET released == [ui EXCEPT !.button_was_pressed = FALSE,
                                  !.long_press_triggered = FALSE]
           acted == [audio EXCEPT !.shorts = IF @ < 2 THEN @ + 1 ELSE @]
       IN  IF ~button.b7_falling
           THEN UNCHANGED <<current_mode, current_page, param_catchers_ready,
                            settings, led, patch, ui, audio>>
           ELSE IF ~ShortPress(ui)
           THEN /\ ui' = released
                /\ UNCHANGED <<current_mode, current_page,
                               param_catchers_ready, settings, led, patch,
                               audio>>
           ELSE CASE current_mode = MODE_PLAY ->
                       /\ led' = NextEngine(led)
                       /\ patch' = [patch EXCEPT !.engine = GetGlobalEngine(led')]
                       /\ ui' = released
                       /\ audio' = acted
                       /\ UNCHANGED <<current_mode, current_page,
                                      param_catchers_ready, settings>>
                  [] current_mode = MODE_PARAMETERS ->
                       /\ param_catchers_ready' = FALSE
                       /\ current_page' = (current_page + 1) % PAGE_COUNT
                       /\ audio' = [acted EXCEPT !.stale = TRUE,
                                                 !.moved = FALSE,
                                                 !.shown = settings]
                       /\ ui' = released
                       /\ UNCHANGED <<current_mode, settings, led, patch>>
                  [] current_mode = MODE_CALIBRATION
                        /\ ui.cal_step = CAL_WAITING_LOW ->
                       /\ \E cv5_adc \in Cv5Readings :
                             ui' = [released EXCEPT
                                       !.cal_low_voltage = cv5_adc,
                                       !.cal_step = CAL_WAITING_HIGH]
                       /\ audio' = acted
                       /\ UNCHANGED <<current_mode, current_page,
                                      param_catchers_ready, settings, led,
                                      patch>>
                  [] current_mode = MODE_CALIBRATION
                        /\ ui.cal_step = CAL_WAITING_HIGH ->
                       /\ \E cv5_adc \in Cv5Readings : CalibrationCapture(cv5_adc)
                       /\ UNCHANGED <<current_mode, current_page,
                                      param_catchers_ready, led, patch>>
                  [] OTHER ->
                       /\ current_mode' = MODE_PARAMETERS
                       /\ ui' = released
                       /\ audio' = acted
                       /\ UNCHANGED <<current_page, param_catchers_ready,
                                      settings, led, patch>>
    /\ UNCHANGED <<previous_mode, previous_page, play_mode_catchers,
                   param_mode_catchers, knob_lp, saved_play_mode_values,
                   page_values, button>>
    /\ UNCHANGED <<catcherVars, uiVars>>

-----------------------------------------------------------------------------
(* common/parameter.h and common/cv_input.h                                *)

Continuous == "Continuous"
Enum == "Enum"

\* CVMapping::CVMapping()
CVMapping ==
    [cv_input |-> 0 - 1, attenuverter |-> One, origin_offset |-> 500,
     active |-> FALSE]

\* Parameter::Parameter(const char* name, float min, float max)
ContinuousParameter(min, max) ==
    [type |-> Continuous, value |-> RoundDiv(min + max, 2), min |-> min,
     max |-> max, cv_mapping |-> CVMapping, enum_labels |-> "nullptr",
     enum_count |-> 0, step_count |-> 0]

\* Parameter::Parameter(const char* name, const char** labels, uint8_t count)
EnumParameter(labels, count) ==
    [type |-> Enum, value |-> 0, min |-> 0, max |-> (count - 1) * One,
     cv_mapping |-> CVMapping, enum_labels |-> labels, enum_count |-> count,
     step_count |-> count]

ProcessWithMapping_IgnoresSource(param, knob_value, cv_value) ==
    IF ~param.cv_mapping.active
    THEN knob_value
    ELSE Clamp(param.cv_mapping.origin_offset
                 + RoundDiv((cv_value - 500) * 2 * param.cv_mapping.attenuverter,
                            One),
               0, One)

ProcessWithMapping_KnobCentered(param, knob_value, cv_value) ==
    IF param.cv_mapping.cv_input < 0 \/ ~param.cv_mapping.active
    THEN knob_value
    ELSE Clamp(knob_value
                 + RoundDiv((cv_value - 500) * 2 * param.cv_mapping.attenuverter,
                            One),
               0, One)

ProcessWithMapping_NoClamp(param, knob_value, cv_value) ==
    IF param.cv_mapping.cv_input < 0 \/ ~param.cv_mapping.active
    THEN knob_value
    ELSE param.cv_mapping.origin_offset
           + RoundDiv((cv_value - 500) * 2 * param.cv_mapping.attenuverter, One)

\* static float CVInput::ProcessWithMapping(param, knob_value, cv_value)
ProcessWithMapping(param, knob_value, cv_value) ==
    IF param.cv_mapping.cv_input < 0 \/ ~param.cv_mapping.active
    THEN knob_value
    ELSE LET cv_contribution ==
                 RoundDiv((cv_value - 500) * 2 * param.cv_mapping.attenuverter,
                          One)
             result == param.cv_mapping.origin_offset + cv_contribution
         IN  Clamp(result, 0, One)

GetNormalized_HalfWhenFlat(p) ==
    IF p.max = p.min THEN 500
    ELSE RoundDiv((p.value - p.min) * One, p.max - p.min)

\* float Parameter::GetNormalized()
GetNormalized(p) ==
    IF p.max = p.min THEN 0
    ELSE RoundDiv((p.value - p.min) * One, p.max - p.min)

SetNormalized_NoClamp(p, normalized) ==
    [p EXCEPT !.value = p.min + RoundDiv(normalized * (p.max - p.min), One)]

\* void Parameter::SetNormalized(float normalized)
SetNormalized(p, normalized) ==
    [p EXCEPT !.value =
        Clamp(p.min + RoundDiv(normalized * (p.max - p.min), One),
              p.min, p.max)]

-----------------------------------------------------------------------------
(* common/ui_state.h                                                       *)

Navigate == "Navigate"
EditValue == "EditValue"
Submenu == "Submenu"
SubmenuEdit == "SubmenuEdit"

VISIBLE_PARAMS == 4

\* MenuState::MenuState()
NewMenuState ==
    [state |-> Navigate, selected_param |-> 0, param_count |-> 0,
     scroll_offset |-> 0, selected_submenu_item |-> "CVSource",
     submenu_param_index |-> 0 - 1]

ScrollToSelected_Centered(m) ==
    IF m.selected_param < m.scroll_offset
       \/ m.selected_param >= m.scroll_offset + VISIBLE_PARAMS
    THEN [m EXCEPT !.scroll_offset =
                      IF m.selected_param < 2 THEN 0 ELSE m.selected_param - 2]
    ELSE m

\* void MenuState::ScrollToSelected()
ScrollToSelected(m) ==
    IF m.selected_param < m.scroll_offset
    THEN [m EXCEPT !.scroll_offset = m.selected_param]
    ELSE IF m.selected_param >= m.scroll_offset + VISIBLE_PARAMS
    THEN [m EXCEPT !.scroll_offset = m.selected_param - VISIBLE_PARAMS + 1]
    ELSE m

\* void MenuState::NextParam()
NextParam(m) ==
    LET selected == m.selected_param + 1
    IN  IF selected >= m.param_count
        THEN [m EXCEPT !.selected_param = 0, !.scroll_offset = 0]
        ELSE ScrollToSelected([m EXCEPT !.selected_param = selected])

PrevParam_KeepsScroll(m) ==
    LET selected == m.selected_param - 1
    IN  IF selected < 0
        THEN [m EXCEPT !.selected_param = m.param_count - 1]
        ELSE ScrollToSelected([m EXCEPT !.selected_param = selected])

PrevParam_NoFloor(m) ==
    LET selected == m.selected_param - 1
        last == m.param_count - 1
    IN  IF selected < 0
        THEN [m EXCEPT !.selected_param = last,
                       !.scroll_offset = last - VISIBLE_PARAMS + 1]
        ELSE ScrollToSelected([m EXCEPT !.selected_param = selected])

\* void MenuState::PrevParam()
PrevParam(m) ==
    LET selected == m.selected_param - 1
        last == m.param_count - 1
        offset == last - VISIBLE_PARAMS + 1
    IN  IF selected < 0
        THEN [m EXCEPT !.selected_param = last,
                       !.scroll_offset = IF offset < 0 THEN 0 ELSE offset]
        ELSE ScrollToSelected([m EXCEPT !.selected_param = selected])

\* void Display::RenderMenu(const MenuState& menu, Parameter* params): the
\* indices of the parameters its loop renders
RenderMenu(m) ==
    {m.scroll_offset + i : i \in {j \in 0..(VISIBLE_PARAMS - 1) :
                                     m.scroll_offset + j < m.param_count}}

\* void MenuState::EnterSubmenu(int param_index)
EnterSubmenu(m, param_index) ==
    [m EXCEPT !.submenu_param_index = param_index,
              !.selected_submenu_item = "CVSource",
              !.state = Submenu]

ExitSubmenu_KeepsContext(m) == [m EXCEPT !.state = Navigate]

\* void MenuState::ExitSubmenu()
ExitSubmenu(m) ==
    [m EXCEPT !.submenu_param_index = 0 - 1, !.state = Navigate]

-----------------------------------------------------------------------------
(* common/cv_input.h (CVInputBank), plaits/plaits_port.cpp, plaits/main.cpp *)

Channels == 1 .. 4

\* CVInputBank::CVInputBank()
NewCVInputBank ==
    [raw_values_ |-> <<0, 0, 0, 0>>, filtered_values_ |-> <<0, 0, 0, 0>>,
     filters_ |-> <<0, 0, 0, 0>>]

\* float CVInput::Filter(float input, float coefficient = 0.02f): the
\* filtered_value_ after the call
FilterState(filtered_value_, input) ==
    LET scaled == Clamp(RoundDiv((input - 25) * One, 970 - 25), 0, One)
    IN  ONE_POLE(filtered_value_, scaled, [num |-> 2, den |-> 100])

FilterOutput_NoSnap(filtered_value_) == filtered_value_

\* float CVInput::Filter(...): the value returned for the new filtered_value_
FilterOutput(filtered_value_) ==
    IF filtered_value_ < 10 THEN 0
    ELSE IF filtered_value_ > 990 THEN One
    ELSE filtered_value_

\* void CVInputBank::UpdateRawValues(cv1, cv2, cv3, cv4)
UpdateRawValues(cv, raw) ==
    LET state == [i \in Channels |-> FilterState(cv.filters_[i], raw[i])]
    IN  [raw_values_ |-> raw,
         filtered_values_ |-> [i \in Channels |-> FilterOutput(state[i])],
         filters_ |-> state]

\* float CVInputBank::GetFiltered(int index)
GetFiltered(cv, index) ==
    IF index < 0 \/ index >= 4 THEN 0 ELSE cv.filtered_values_[index + 1]

kNumParams == 9
kNumPortBanks == 3
kNumSynthEngines == 8
kNumDrumEngines == 8
kNumNewEngines == 8

ParamIndex == 0 .. kNumParams - 1

\* int Parameter::GetIndex()
GetIndex(p) == (p.value + 500) \div One

KnobMapped(p, cv_input) ==
    [p EXCEPT !.cv_mapping = [@ EXCEPT !.cv_input = cv_input,
                                       !.active = TRUE,
                                       !.attenuverter = One]]

\* void PlaitsPort::SetupParameters()
SetupParameters ==
    [i \in ParamIndex |->
        CASE i = 0 -> EnumParameter("bank_names_", kNumPortBanks)
          [] i = 1 -> EnumParameter("synth_engine_names_", kNumSynthEngines)
          [] i = 2 -> KnobMapped(ContinuousParameter(0, One), 1)
          [] i = 3 -> KnobMapped(ContinuousParameter(0, One), 2)
          [] i = 4 -> KnobMapped(ContinuousParameter(0, One), 3)
          [] i = 5 -> KnobMapped([ContinuousParameter(0, One)
                                     EXCEPT !.value = 500], 0)
          [] i = 6 -> ContinuousParameter(0, One)
          [] i = 7 -> [ContinuousParameter(0, One) EXCEPT !.value = 500]
          [] OTHER -> [ContinuousParameter(0, One) EXCEPT !.value = 800]]

UpdateEngineListForBank_KeepsIndex(ps, current, bank) ==
    IF bank = current THEN ps
    ELSE [ps EXCEPT ![1].enum_labels =
                       CASE bank = 0 -> "synth_engine_names_"
                         [] bank = 1 -> "drum_engine_names_"
                         [] OTHER -> "new_engine_names_"]

\* void PlaitsPort::UpdateEngineListForBank(int bank): params_ after the call
UpdateEngineListForBank(ps, current, bank) ==
    IF bank = current THEN ps
    ELSE CASE bank = 0 ->
                [ps EXCEPT ![1] = EnumParameter("synth_engine_names_",
                                                kNumSynthEngines)]
           [] bank = 1 ->
                [ps EXCEPT ![1] = EnumParameter("drum_engine_names_",
                                                kNumDrumEngines)]
           [] bank = 2 ->
                [ps EXCEPT ![1] = EnumParameter("new_engine_names_",
                                                kNumNewEngines)]
           [] OTHER -> ps

\* int PlaitsPort::GetActualEngineIndex(int bank, int engine_in_bank)
GetActualEngineIndex(bank, engine_in_bank) ==
    CASE bank = 0 -> 8 + engine_in_bank
      [] bank = 1 -> 16 + engine_in_bank
      [] bank = 2 -> engine_in_bank
      [] OTHER -> 8

\* void PlaitsPort::UpdatePatchFromParams(): the patch it fills from the
\* params_ left by UpdateEngineListForBank
PatchFromParams(ps, bank) ==
    [engine |-> GetActualEngineIndex(bank, GetIndex(ps[1])),
     note |-> ps[5].value * 128,
     harmonics |-> ps[2].value,
     timbre |-> ps[3].value,
     morph |-> ps[4].value,
     lpg_colour |-> ps[6].value,
     decay |-> ps[7].value]

\* the threshold AudioCallback passes to SetNormalizedWithHysteresis
kHysteresis == 1

\* void Parameter::SetNormalizedWithHysteresis(float normalized, float
\* threshold): commits the new normalized value only if it differs from the
\* current normalized value by more than the threshold
SetNormalizedWithHysteresis(p, normalized, threshold) ==
    IF Abs(normalized - GetNormalized(p)) > threshold
    THEN SetNormalized(p, normalized)
    ELSE p

WriteCvParams_Unconditional(ps, cv) ==
    [i \in ParamIndex |->
        IF ps[i].cv_mapping.active /\ ps[i].cv_mapping.cv_input >= 0
        THEN SetNormalized(ps[i], GetFiltered(cv, ps[i].cv_mapping.cv_input))
        ELSE ps[i]]

\* AudioCallback, "Update parameters from CV mappings"
WriteCvParams(ps, cv) ==
    [i \in ParamIndex |->
        IF ps[i].cv_mapping.active /\ ps[i].cv_mapping.cv_input >= 0
        THEN SetNormalizedWithHysteresis(
                 ps[i], GetFiltered(cv, ps[i].cv_mapping.cv_input),
                 kHysteresis)
        ELSE ps[i]]

MenuAfterEncoder_EditSticky(m, encoder_increment, encoder_button, long_press) ==
    LET moved == IF encoder_increment > 0 THEN NextParam(m)
                 ELSE IF encoder_increment < 0 THEN PrevParam(m)
                 ELSE m
    IN  CASE m.state = Navigate ->
                IF encoder_button /\ ~long_press
                THEN [moved EXCEPT !.state = EditValue]
                ELSE IF long_press
                THEN EnterSubmenu(moved, moved.selected_param)
                ELSE moved
          [] m.state = EditValue -> m
          [] m.state = Submenu ->
                IF long_press THEN ExitSubmenu(m) ELSE m
          [] OTHER -> m

\* UpdateEncoder, switch (menu.state): the menu after the call
MenuAfterEncoder(m, encoder_increment, encoder_button, long_press) ==
    LET moved == IF encoder_increment > 0 THEN NextParam(m)
                 ELSE IF encoder_increment < 0 THEN PrevParam(m)
                 ELSE m
    IN  CASE m.state = Navigate ->
                IF encoder_button /\ ~long_press
                THEN [moved EXCEPT !.state = EditValue]
                ELSE IF long_press
                THEN EnterSubmenu(moved, moved.selected_param)
                ELSE moved
          [] m.state = EditValue ->
                IF encoder_button
                THEN [m EXCEPT !.state = Navigate]
                ELSE m
          [] m.state = Submenu ->
                IF long_press THEN ExitSubmenu(m) ELSE m
          [] OTHER -> m

EditParameter_SmallStep(p, encoder_increment) ==
    [p EXCEPT !.value = Clamp(p.value + encoder_increment * 10,
                              p.min, p.max)]

\* UpdateEncoder, case UIState::EditValue: the parameter after a rotation
EditParameter(p, encoder_increment) ==
    LET step == IF p.type = Enum \/ p.type = "Integer" THEN One ELSE 10
    IN  [p EXCEPT !.value = Clamp(p.value + encoder_increment * step,
                                  p.min, p.max)]

-----------------------------------------------------------------------------
(* What each specification leaves alone stays as constructed               *)

NoBankCall ==
    [op |-> "none", index |-> NoValue, values |-> <<>>, out |-> NoValue, n |-> 0]

BankIdle ==
    /\ catchers_ = BankInit([num |-> 1, den |-> 1], FALSE)
    /\ bankPre = catchers_
    /\ bankCall = NoBankCall

CvIdle ==
    /\ cvParam = ContinuousParameter(0, One)
    /\ cvArgs = [knob_value |-> 0, cv_value |-> 0]
    /\ cvResult = NoValue

NoParamCall == [op |-> "none", arg |-> NoValue, out |-> NoValue]

ParamIdle ==
    /\ parameter = ContinuousParameter(0, One)
    /\ paramPre = parameter
    /\ paramCall = NoParamCall

NoMenuCall == [op |-> "none", run |-> 0]

MenuIdle ==
    /\ menu = NewMenuState
    /\ menuPre = menu
    /\ menuCall = NoMenuCall

\* the switch is up and no press has been seen
EncoderAtRest ==
    [sw |-> "up", event |-> "none", elapsed |-> FALSE, from |-> NewMenuState,
     turned |-> FALSE, turns |-> 0]

NoPortStep ==
    [op |-> "none", pre |-> SetupParameters, arg |-> NoValue, ticks |-> 0,
     events |-> 0]

\* PlaitsPort::Init and the globals of main.cpp
PortBoot ==
    /\ params_ = SetupParameters
    /\ current_bank_ = 0
    /\ patch_ = PatchFromParams(SetupParameters, 0)
    /\ cv_inputs = NewCVInputBank
    /\ encoder_button_last = FALSE
    /\ port = NoPortStep
    /\ encoder = EncoderAtRest

UiIdle == BankIdle /\ CvIdle /\ ParamIdle /\ MenuIdle /\ PortBoot

-----------------------------------------------------------------------------
(* One catcher driven by every sequence of calls                           *)

\* filter coefficients a caller may pass to Init, in (0, 1]
LpCoeffs == {[num |-> 1, den |-> 1], [num |-> 1, den |-> 2]}

\* raw ADC readings fed to a catcher whose filter does not lag
AdcValues == {0, 200, 220, 600, 604, 700, One}

\* raw ADC readings fed to a catcher whose filter lags
LagAdcValues == {200, 600}

\* a lagging catcher is followed for this many Process calls after a reset
MaxLagTicks == 4

\* parameter values handed to OnPageChange
PageValues == {0, 200, 900, One}

Lags(k) == k.lp_coefficient_.num < k.lp_coefficient_.den

NoCall == [op |-> "none", arg |-> NoValue, out |-> NoValue]

\* the ghost pagev after a call that leaves the catcher as k
PageValueAfter(k, v) == IF k.state_ = KNOB_WAITING THEN v ELSE NoValue

Init ==
    /\ \E lp \in LpCoeffs, uc \in BOOLEAN :
          /\ kc = KnobInit(lp, uc)
          /\ pre = KnobInit(lp, uc)
    /\ call = NoCall
    /\ pagev = NoValue
    /\ lastAdc = NoValue
    /\ held = FALSE
    /\ ticks = 0
    /\ DaisyBoot
    /\ UiIdle

CatcherIdle ==
    /\ kc = KnobInit(kCatcherLpCoeff, TRUE)
    /\ pre = kc
    /\ call = NoCall
    /\ pagev = NoValue
    /\ lastAdc = NoValue
    /\ held = FALSE
    /\ ticks = 0

CallInit ==
    /\ \E lp \in LpCoeffs, uc \in BOOLEAN : kc' = KnobInit(lp, uc)
    /\ pre' = kc
    /\ call' = [op |-> "Init", arg |-> NoValue, out |-> NoValue]
    /\ pagev' = PageValueAfter(kc', pagev)
    /\ held' = FALSE
    /\ ticks' = 0
    /\ UNCHANGED lastAdc
    /\ UNCHANGED <<daisyVars, uiVars>>

CallReset ==
    /\ kc' = Reset(kc)
    /\ pre' = kc
    /\ call' = [op |-> "Reset", arg |-> NoValue, out |-> NoValue]
    /\ pagev' = PageValueAfter(kc', pagev)
    /\ held' = FALSE
    /\ ticks' = 0
    /\ UNCHANGED lastAdc
    /\ UNCHANGED <<daisyVars, uiVars>>

CallOnPageChange ==
    \E v \in PageValues :
       /\ kc' = OnPageChange(kc, v)
       /\ pre' = kc
       /\ call' = [op |-> "OnPageChange", arg |-> v, out |-> NoValue]
       /\ pagev' = PageValueAfter(kc', v)
       /\ held' = TRUE
       /\ UNCHANGED <<lastAdc, ticks>>
       /\ UNCHANGED <<daisyVars, uiVars>>

CallForceTracking ==
    /\ kc' = ForceTracking(kc)
    /\ pre' = kc
    /\ call' = [op |-> "ForceTracking", arg |-> NoValue, out |-> NoValue]
    /\ pagev' = PageValueAfter(kc', pagev)
    /\ held' = FALSE
    /\ UNCHANGED <<lastAdc, ticks>>
    /\ UNCHANGED <<daisyVars, uiVars>>

CallProcess ==
    /\ Lags(kc) => ticks < MaxLagTicks
    /\ \E adc \in (IF Lags(kc) THEN LagAdcValues ELSE AdcValues) :
          LET r == Process(kc, adc)
          IN  /\ kc' = r.k
              /\ pre' = kc
              /\ call' = [op |-> "Process", arg |-> adc, out |-> r.out]
              /\ pagev' = PageValueAfter(kc', pagev)
              /\ lastAdc' = adc
              /\ held' = (held /\ (lastAdc = NoValue \/ lastAdc = adc))
              /\ ticks' = IF Lags(kc) THEN ticks + 1 ELSE ticks
    /\ UNCHANGED <<daisyVars, uiVars>>

Next ==
    \/ CallInit
    \/ CallReset
    \/ CallOnPageChange
    \/ CallForceTracking
    \/ CallProcess

Spec == Init /\ [][Next]_vars

-----------------------------------------------------------------------------
(* One catcher with catch-up, swept: the knob rests somewhere, the page    *)
(* changes, then the knob is turned one way, tick after tick, to the end   *)
(* of its travel                                                           *)

\* where the knob rests, the values handed to OnPageChange, and how far the
\* raw reading moves per tick
SweepStarts == {100, 500, 900}
SweepPageValues == {0, 500, 1000}
SweepSteps == {50, 100}

\* the last call, where the sweep stands, its direction, and whether every
\* tick of the sweep so far moved the filtered value by more than kMinDelta
\* in that direction
Swept(op, arg, out, phase, dir, steady) ==
    [op |-> op, arg |-> arg, out |-> out, phase |-> phase, dir |-> dir,
     steady |-> steady]

InitCatchUp ==
    /\ \E lp \in LpCoeffs :
          /\ kc = KnobInit(lp, TRUE)
          /\ pre = KnobInit(lp, TRUE)
    /\ call = Swept("none", NoValue, NoValue, "boot", 0, TRUE)
    /\ pagev = NoValue
    /\ lastAdc = NoValue
    /\ held = FALSE
    /\ ticks = 0
    /\ DaisyBoot
    /\ UiIdle

\* Process with the knob at rest
SweepSettle ==
    /\ call.phase = "boot"
    /\ \E adc \in SweepStarts :
          LET r == Process(kc, adc)
          IN  /\ kc' = r.k
              /\ call' = Swept("Process", adc, r.out, "settled", 0, TRUE)
              /\ lastAdc' = adc
    /\ pre' = kc
    /\ UNCHANGED <<pagev, held, ticks>>
    /\ UNCHANGED <<daisyVars, uiVars>>

\* OnPageChange, after which the knob is turned up (dir 1) or down
SweepPage ==
    /\ call.phase = "settled"
    /\ \E v \in SweepPageValues, dir \in {0 - 1, 1} :
          /\ kc' = OnPageChange(kc, v)
          /\ call' = Swept("OnPageChange", v, NoValue, "sweep", dir, TRUE)
    /\ pre' = kc
    /\ UNCHANGED <<pagev, lastAdc, held, ticks>>
    /\ UNCHANGED <<daisyVars, uiVars>>

\* Process with the raw reading one step further, or at the end of travel
\* while the filtered value has not arrived there
SweepTick ==
    /\ call.phase = "sweep"
    /\ call.steady
    /\ \E step \in SweepSteps :
          LET adc == Clamp(lastAdc + call.dir * step, 0, One)
              r == Process(kc, adc)
              moved == (r.k.filtered_value_ - kc.filtered_value_) * call.dir
          IN  /\ adc # lastAdc \/ kc.filtered_value_ # adc
              /\ kc' = r.k
              /\ call' = Swept("Process", adc, r.out, "sweep", call.dir,
                               moved > kMinDelta)
              /\ lastAdc' = adc
    /\ pre' = kc
    /\ UNCHANGED <<pagev, held, ticks>>
    /\ UNCHANGED <<daisyVars, uiVars>>

NextCatchUp ==
    \/ SweepSettle
    \/ SweepPage
    \/ SweepTick

SpecCatchUp == InitCatchUp /\ [][NextCatchUp]_vars

-----------------------------------------------------------------------------
(* One KnobCatcherBank<4> driven by every sequence of calls                *)

\* the values handed to the bank's OnPageChange
BankPageValues == {<<200, 900, 200, 900>>, <<900, 900, 200, 200>>}

\* the filtered readings handed to the bank's Process
BankAdcValues == {200, 600}

\* the bank is followed for this many calls
MaxBankCalls == 6

BankCalled(op, index, values, out) ==
    [op |-> op, index |-> index, values |-> values, out |-> out,
     n |-> bankCall.n + 1]

InitBank ==
    /\ \E uc \in BOOLEAN :
          /\ catchers_ = BankInit([num |-> 1, den |-> 1], uc)
          /\ bankPre = catchers_
    /\ bankCall = NoBankCall
    /\ DaisyBoot
    /\ CatcherIdle
    /\ CvIdle
    /\ ParamIdle
    /\ MenuIdle
    /\ PortBoot

CallBankInit ==
    /\ bankCall.n < MaxBankCalls
    /\ \E uc \in BOOLEAN : catchers_' = BankInit([num |-> 1, den |-> 1], uc)
    /\ bankPre' = catchers_
    /\ bankCall' = BankCalled("Init", NoValue, <<>>, NoValue)
    /\ UNCHANGED <<catcherVars, daisyVars, cvVars, paramVars, menuVars,
                   portVars>>

CallBankOnPageChange ==
    /\ bankCall.n < MaxBankCalls
    /\ \E values \in BankPageValues :
          /\ catchers_' = BankOnPageChange(catchers_, values)
          /\ bankCall' = BankCalled("OnPageChange", NoValue, values, NoValue)
    /\ bankPre' = catchers_
    /\ UNCHANGED <<catcherVars, daisyVars, cvVars, paramVars, menuVars,
                   portVars>>

CallBankProcess ==
    /\ bankCall.n < MaxBankCalls
    /\ \E index \in Knobs, adc_value \in BankAdcValues :
          /\ catchers_' = BankProcess(catchers_, index, adc_value)
          /\ bankCall' = BankCalled("Process", index, <<>>,
                                    Process(catchers_[index], adc_value).out)
    /\ bankPre' = catchers_
    /\ UNCHANGED <<catcherVars, daisyVars, cvVars, paramVars, menuVars,
                   portVars>>

CallForceAllTracking ==
    /\ bankCall.n < MaxBankCalls
    /\ catchers_' = ForceAllTracking(catchers_)
    /\ bankPre' = catchers_
    /\ bankCall' = BankCalled("ForceAllTracking", NoValue, <<>>, NoValue)
    /\ UNCHANGED <<catcherVars, daisyVars, cvVars, paramVars, menuVars,
                   portVars>>

CallBankReset ==
    /\ bankCall.n < MaxBankCalls
    /\ catchers_' = BankReset(catchers_)
    /\ bankPre' = catchers_
    /\ bankCall' = BankCalled("Reset", NoValue, <<>>, NoValue)
    /\ UNCHANGED <<catcherVars, daisyVars, cvVars, paramVars, menuVars,
                   portVars>>

NextBankCall ==
    \/ CallBankInit
    \/ CallBankOnPageChange
    \/ CallBankProcess
    \/ CallForceAllTracking
    \/ CallBankReset

SpecBank == InitBank /\ [][NextBankCall]_vars

-----------------------------------------------------------------------------
(* CVInput::ProcessWithMapping applied to every input of a bounded set     *)

CvSources == {0 - 1, 0, 3}
CvAttenuverters == {0 - One, 0 - 500, 0, 250, One}
CvOrigins == {0 - 500, 0, 300, One, 1500}
CvKnobValues == {0, 700}
CvValues == {0, 250, 500, One}

CvMappings ==
    [cv_input : CvSources, attenuverter : CvAttenuverters,
     origin_offset : CvOrigins, active : BOOLEAN]

CvReadings == [knob_value : CvKnobValues, cv_value : CvValues]

InitCv ==
    /\ \E m \in CvMappings :
          cvParam = [ContinuousParameter(0, One) EXCEPT !.cv_mapping = m]
    /\ cvArgs \in CvReadings
    /\ cvResult = NoValue
    /\ DaisyBoot
    /\ CatcherIdle
    /\ BankIdle
    /\ ParamIdle
    /\ MenuIdle
    /\ PortBoot

CallProcessWithMapping ==
    /\ cvResult = NoValue
    /\ cvResult' = ProcessWithMapping(cvParam, cvArgs.knob_value,
                                      cvArgs.cv_value)
    /\ UNCHANGED <<cvParam, cvArgs>>
    /\ UNCHANGED <<catcherVars, daisyVars, bankVars, paramVars, menuVars,
                   portVars>>

\* the mapping is edited between two evaluations
SetCvMapping ==
    /\ cvResult # NoValue
    /\ \E m \in CvMappings : cvParam' = [cvParam EXCEPT !.cv_mapping = m]
    /\ cvResult' = NoValue
    /\ UNCHANGED cvArgs
    /\ UNCHANGED <<catcherVars, daisyVars, bankVars, paramVars, menuVars,
                   portVars>>

\* the knob and the CV input move between two evaluations
SetCvReadings ==
    /\ cvResult # NoValue
    /\ cvArgs' \in CvReadings
    /\ cvResult' = NoValue
    /\ UNCHANGED cvParam
    /\ UNCHANGED <<catcherVars, daisyVars, bankVars, paramVars, menuVars,
                   portVars>>

NextCv ==
    \/ CallProcessWithMapping
    \/ SetCvMapping
    \/ SetCvReadings

SpecCv == InitCv /\ [][NextCv]_vars

-----------------------------------------------------------------------------
(* One Parameter driven by every sequence of calls                         *)

\* the [min, max] a continuous Parameter is constructed with
ParamRanges ==
    {<<0, One>>, <<0 - One, One>>, <<500, 500>>, <<0, 0>>, <<0 - 300, 700>>}

\* the count an enum Parameter is constructed with
EnumCounts == {1, 3, 8}

\* the arguments of SetNormalized
NormalizedValues == {0 - 500, 0, 250, 500, One, 1500}

NewParameters ==
    {ContinuousParameter(r[1], r[2]) : r \in ParamRanges}
       \cup {EnumParameter("labels", c) : c \in EnumCounts}

InitParameter ==
    /\ parameter \in NewParameters
    /\ paramPre = parameter
    /\ paramCall = NoParamCall
    /\ DaisyBoot
    /\ CatcherIdle
    /\ BankIdle
    /\ CvIdle
    /\ MenuIdle
    /\ PortBoot

CallConstruct ==
    /\ parameter' \in NewParameters
    /\ paramPre' = parameter
    /\ paramCall' = [op |-> "Parameter", arg |-> NoValue, out |-> NoValue]
    /\ UNCHANGED <<catcherVars, daisyVars, bankVars, cvVars, menuVars,
                   portVars>>

CallSetNormalized ==
    /\ \E normalized \in NormalizedValues :
          /\ parameter' = SetNormalized(parameter, normalized)
          /\ paramCall' = [op |-> "SetNormalized", arg |-> normalized,
                           out |-> NoValue]
    /\ paramPre' = parameter
    /\ UNCHANGED <<catcherVars, daisyVars, bankVars, cvVars, menuVars,
                   portVars>>

CallGetNormalized ==
    /\ paramCall' = [op |-> "GetNormalized", arg |-> NoValue,
                     out |-> GetNormalized(parameter)]
    /\ paramPre' = parameter
    /\ UNCHANGED parameter
    /\ UNCHANGED <<catcherVars, daisyVars, bankVars, cvVars, menuVars,
                   portVars>>

NextParameter ==
    \/ CallConstruct
    \/ CallSetNormalized
    \/ CallGetNormalized

SpecParameter == InitParameter /\ [][NextParameter]_vars

-----------------------------------------------------------------------------
(* One MenuState driven by every sequence of NextParam and PrevParam       *)

\* the largest param_count the menu is given
MaxParamCount == 10

InitMenu ==
    /\ \E n \in 1 .. MaxParamCount :
          menu = [NewMenuState EXCEPT !.param_count = n]
    /\ menuPre = menu
    /\ menuCall = NoMenuCall
    /\ DaisyBoot
    /\ CatcherIdle
    /\ BankIdle
    /\ CvIdle
    /\ ParamIdle
    /\ PortBoot

\* how many calls have been made when every call since InitMenu was
\* NextParam (followed up to one past the window), 0 - 1 otherwise
NextRun(c, op) ==
    IF op = "NextParam" /\ c.run >= 0 /\ c.run <= VISIBLE_PARAMS
    THEN c.run + 1
    ELSE 0 - 1

CallNextParam ==
    /\ menu' = NextParam(menu)
    /\ menuPre' = menu
    /\ menuCall' = [op |-> "NextParam", run |-> NextRun(menuCall, "NextParam")]
    /\ UNCHANGED <<catcherVars, daisyVars, bankVars, cvVars, paramVars,
                   portVars>>

CallPrevParam ==
    /\ menu' = PrevParam(menu)
    /\ menuPre' = menu
    /\ menuCall' = [op |-> "PrevParam", run |-> 0 - 1]
    /\ UNCHANGED <<catcherVars, daisyVars, bankVars, cvVars, paramVars,
                   portVars>>

NextMenu ==
    \/ CallNextParam
    \/ CallPrevParam

SpecMenu == InitMenu /\ [][NextMenu]_vars

-----------------------------------------------------------------------------
(* plaits/main.cpp: UpdateEncoder and the audio callback on PlaitsPort     *)

\* the knob readings of one audio callback, CTRL_1 .. CTRL_4
PortKnobReadings ==
    {<<25, 25, 25, 25>>, <<82, 82, 82, 82>>, <<970, 970, 82, 25>>}

\* the arguments of SetNormalized calls made through GetParameters()
PortNormalizedValues == {0 - 500, 250, 1500}

\* the audio callback is followed for this many runs
MaxPortTicks == 2

\* encoder events and direct writes are followed for this many
MaxPortEvents == 2

PortStep(op, arg, is_tick) ==
    [op |-> op, pre |-> params_, arg |-> arg,
     ticks |-> IF is_tick THEN port.ticks + 1 ELSE port.ticks,
     events |-> IF is_tick THEN port.events ELSE port.events + 1]

InitPlaits ==
    /\ PortBoot
    /\ menu = [NewMenuState EXCEPT !.param_count = kNumParams]
    /\ menuPre = menu
    /\ menuCall = NoMenuCall
    /\ DaisyBoot
    /\ CatcherIdle
    /\ BankIdle
    /\ CvIdle
    /\ ParamIdle

\* void AudioCallback(...) of plaits/main.cpp with PlaitsPort::Process
PlaitsAudioCallback ==
    /\ port.ticks < MaxPortTicks
    /\ \E raw \in PortKnobReadings :
          LET cv == UpdateRawValues(
                        cv_inputs, [i \in Channels |-> Clamp(raw[i], 0, One)])
              written == WriteCvParams(params_, cv)
              bank == GetIndex(written[0])
              listed == UpdateEngineListForBank(written, current_bank_, bank)
          IN  /\ cv_inputs' = cv
              /\ params_' = listed
              /\ current_bank_' = bank
              /\ patch_' = PatchFromParams(listed, bank)
              /\ port' = PortStep("AudioCallback", raw, TRUE)
    /\ UNCHANGED <<encoder_button_last, menuVars, encoder>>
    /\ UNCHANGED <<catcherVars, daisyVars, bankVars, cvVars, paramVars>>

\* void UpdateEncoder() run on what the encoder reports: encoder_increment,
\* encoder_button (the rising edge) and encoder_held; elapsed says that more
\* than LONG_PRESS_MS passed since encoder_press_time
UpdateEncoderWith(encoder_increment, encoder_button, encoder_held, elapsed) ==
    LET long_press == ~encoder_held /\ encoder_button_last /\ elapsed
    IN  /\ encoder_button_last' = encoder_held
        /\ menu' = MenuAfterEncoder(menu, encoder_increment, encoder_button,
                                    long_press)
        /\ params_' =
              IF menu.state = EditValue /\ encoder_increment # 0
              THEN [params_ EXCEPT ![menu.selected_param] =
                       EditParameter(@, encoder_increment)]
              ELSE params_
        /\ menuCall' = [op |-> "UpdateEncoder",
                        encoder_increment |-> encoder_increment,
                        encoder_button |-> encoder_button,
                        encoder_held |-> encoder_held,
                        long_press |-> long_press]
        /\ menuPre' = menu
        /\ port' = PortStep("UpdateEncoder", encoder_increment, FALSE)

\* UpdateEncoder between audio callbacks, on anything the encoder may report
UpdateEncoder ==
    /\ port.events < MaxPortEvents
    /\ \E encoder_increment \in {0 - 1, 0, 1}, encoder_button \in BOOLEAN,
          encoder_held \in BOOLEAN, elapsed \in BOOLEAN :
          /\ encoder_increment # 0 \/ encoder_button
                \/ encoder_held # encoder_button_last
          /\ UpdateEncoderWith(encoder_increment, encoder_button,
                               encoder_held, elapsed)
    /\ UNCHANGED <<current_bank_, patch_, cv_inputs, encoder>>
    /\ UNCHANGED <<catcherVars, daisyVars, bankVars, cvVars, paramVars>>

\* a client of ModuleBase::GetParameters() calls SetNormalized
PortSetNormalized ==
    /\ port.events < MaxPortEvents
    /\ \E i \in ParamIndex, normalized \in PortNormalizedValues :
          /\ params_' = [params_ EXCEPT ![i] = SetNormalized(@, normalized)]
          /\ port' = PortStep("SetNormalized", <<i, normalized>>, FALSE)
    /\ UNCHANGED <<current_bank_, patch_, cv_inputs, encoder_button_last,
                   menuVars, encoder>>
    /\ UNCHANGED <<catcherVars, daisyVars, bankVars, cvVars, paramVars>>

NextPlaits ==
    \/ PlaitsAudioCallback
    \/ UpdateEncoder
    \/ PortSetNormalized

SpecPlaits == InitPlaits /\ [][NextPlaits]_vars

-----------------------------------------------------------------------------
(* plaits/main.cpp: the main loop, hw.ProcessAllControls() followed by     *)
(* UpdateEncoder(), driven by what a user can do with the encoder          *)

\* main loop iterations followed, and how many of them see a rotation
MaxEncoderCalls == 10
MaxTurns == 3

\* What hw.ProcessAllControls() can make the encoder's switch report in one
\* iteration.  RisingEdge() is true in the iteration that sees the switch
\* go down; Pressed() is true while it is down, from that iteration or from
\* the next; a press that lasted longer than LONG_PRESS_MS has been seen
\* down by an earlier iteration.
EncoderReports ==
    IF encoder.sw = "up"
    THEN {[event |-> "idle", sw |-> "up", encoder_button |-> FALSE,
           encoder_held |-> FALSE, elapsed |-> FALSE]}
         \cup {[event |-> "press", sw |-> "down", encoder_button |-> TRUE,
                encoder_held |-> h, elapsed |-> FALSE] : h \in BOOLEAN}
    ELSE {[event |-> "hold", sw |-> "down", encoder_button |-> FALSE,
           encoder_held |-> TRUE, elapsed |-> FALSE]}
         \cup {[event |-> "release", sw |-> "up", encoder_button |-> FALSE,
                encoder_held |-> FALSE, elapsed |-> e] :
                  e \in IF encoder_button_last THEN BOOLEAN ELSE {FALSE}}

InitEncoder ==
    /\ PortBoot
    /\ menu = [NewMenuState EXCEPT !.param_count = kNumParams]
    /\ menuPre = menu
    /\ menuCall = NoMenuCall
    /\ DaisyBoot
    /\ CatcherIdle
    /\ BankIdle
    /\ CvIdle
    /\ ParamIdle

\* one iteration of main's while(1): ProcessAllControls, UpdateEncoder
MainLoop ==
    /\ port.events < MaxEncoderCalls
    /\ \E r \in EncoderReports,
          encoder_increment \in IF encoder.turns < MaxTurns
                                THEN {0 - 1, 0, 1} ELSE {0} :
          /\ r.event = "idle" => encoder_increment # 0
          /\ r.event = "hold" =>
                (encoder_increment # 0 \/ ~encoder_button_last)
          /\ UpdateEncoderWith(encoder_increment, r.encoder_button,
                               r.encoder_held, r.elapsed)
          /\ encoder' =
                [sw |-> r.sw, event |-> r.event, elapsed |-> r.elapsed,
                 from |-> IF r.event = "press" THEN menu ELSE encoder.from,
                 turned |-> IF r.event = "press" THEN encoder_increment # 0
                            ELSE encoder.turned \/ encoder_increment # 0,
                 turns |-> IF encoder_increment # 0 THEN encoder.turns + 1
                           ELSE encoder.turns]
    /\ UNCHANGED <<current_bank_, patch_, cv_inputs>>
    /\ UNCHANGED <<catcherVars, daisyVars, bankVars, cvVars, paramVars>>

NextEncoder == MainLoop

SpecEncoder == InitEncoder /\ [][NextEncoder]_vars

-----------------------------------------------------------------------------
(* CVInputBank::UpdateRawValues run again and again: channel 1 is held at  *)
(* or below adc_min, channel 2 at or above adc_max, channel 3 in the       *)
(* middle, channel 4 moves freely for the first ticks and then rests       *)

\* where the four filters stand when the run starts, with the raw reading
\* that took them there
FilterStarts == {[raw |-> 0, state |-> 0], [raw |-> 1000, state |-> 500],
                 [raw |-> 1000, state |-> 1000]}

\* the readings of channels 1 and 2 in one tick, and those of channel 4
RawHeld == {<<0, 1000>>, <<25, 970>>}
RawFree == {0, 1000}

\* ticks during which channel 4 moves, and ticks followed in all
MaxFreeTicks == 3
MaxFilterTicks == 260

InitFilter ==
    /\ \E s \in FilterStarts :
          cv_inputs = [raw_values_ |-> [i \in Channels |-> s.raw],
                       filtered_values_ |->
                           [i \in Channels |-> FilterOutput(s.state)],
                       filters_ |-> [i \in Channels |-> s.state]]
    /\ params_ = SetupParameters
    /\ current_bank_ = 0
    /\ patch_ = PatchFromParams(SetupParameters, 0)
    /\ encoder_button_last = FALSE
    /\ port = NoPortStep
    /\ encoder = EncoderAtRest
    /\ DaisyBoot
    /\ CatcherIdle
    /\ BankIdle
    /\ CvIdle
    /\ ParamIdle
    /\ MenuIdle

\* cv_inputs.UpdateRawValues(cv1, cv2, cv3, cv4)
FilterTick ==
    /\ port.ticks < MaxFilterTicks
    /\ \E held_at \in RawHeld,
          free \in IF port.ticks < MaxFreeTicks THEN RawFree
                   ELSE {cv_inputs.raw_values_[4]} :
          LET raw == <<held_at[1], held_at[2], 500, free>>
          IN  /\ cv_inputs' = UpdateRawValues(cv_inputs, raw)
              /\ port' = PortStep("Filter", raw, TRUE)
    /\ UNCHANGED <<params_, current_bank_, patch_, encoder_button_last,
                   encoder, menuVars>>
    /\ UNCHANGED <<catcherVars, daisyVars, bankVars, cvVars, paramVars>>

NextFilter == FilterTick

SpecFilter == InitFilter /\ [][NextFilter]_vars

\* UpdateRawValues is called from every audio callback
SpecFilterFair == SpecFilter /\ WF_vars(FilterTick)

-----------------------------------------------------------------------------
(* plaits_daisy.cpp: the main loop interleaved with the audio callback     *)

InitDaisy ==
    /\ DaisyBoot
    /\ CatcherIdle
    /\ UiIdle

NextDaisy ==
    \/ AudioCallback
    \/ MainLoopTop
    \/ ModeTransition
    \/ EnterPlaySeed
    \/ EnterPlaySave
    \/ EnterParamsGet
    \/ EnterParamsSeed
    \/ EnterParamsReady
    \/ PageTransition
    \/ PageSeed
    \/ PageReady
    \/ ButtonHold
    \/ ResetSeed
    \/ ButtonRelease

SpecDaisy == InitDaisy /\ [][NextDaisy]_vars

-----------------------------------------------------------------------------
(* plaits_daisy.cpp with attenuverters set: the module was switched on     *)
(* with a saved settings record whose attenuverters are not 0 and toggle   *)
(* B8 down, and the main loop has entered Parameters mode on the           *)
(* attenuverter page before the first audio callback                       *)

\* the settings record storage.Init loaded
StoredSettings ==
    [Defaults EXCEPT !.fm_amount = 600, !.timbre_mod_amount = 0 - 400,
                     !.morph_mod_amount = 200, !.harmonics_mod_amount = 1000]

InitReset ==
    /\ current_mode = MODE_PARAMETERS
    /\ previous_mode = MODE_PARAMETERS
    /\ current_page = PAGE_ATTENUVERTERS
    /\ previous_page = PAGE_ATTENUVERTERS
    /\ param_catchers_ready = TRUE
    /\ settings = StoredSettings
    /\ play_mode_catchers = BankInit(kCatcherLpCoeff, TRUE)
    /\ page_values = GetPageParameterValues(PAGE_ATTENUVERTERS, StoredSettings)
    /\ param_mode_catchers =
          [i \in Knobs |->
              OnPageChange(BankInit(kCatcherLpCoeff, FALSE)[i],
                           page_values[i + 1])]
    /\ knob_lp = [i \in Knobs |-> 0]
    /\ patch = [transposition |-> 0, harmonics |-> 500, timbre |-> 500,
                morph |-> 500, engine |-> 0]
    /\ saved_play_mode_values = <<500, 500, 500, 500>>
    /\ led = SetGlobalEngine(LedController, 0)
    /\ button = [b7_pressed |-> FALSE, b7_rising |-> FALSE,
                 b7_falling |-> FALSE, b7_held_long |-> FALSE,
                 b8_pressed |-> TRUE]
    /\ ui = [button_was_pressed |-> FALSE, long_press_triggered |-> FALSE,
             settings_dirty |-> FALSE, cal_step |-> CAL_WAITING_LOW,
             cal_low_voltage |-> 0, cal_high_voltage |-> 0]
    /\ pc = At("loop")
    /\ audio = [NoAudio EXCEPT !.shown = StoredSettings]
    /\ CatcherIdle
    /\ UiIdle

SpecReset == InitReset /\ [][NextDaisy]_vars

-----------------------------------------------------------------------------
(* plaits_daisy.cpp in calibration mode: the run starts at the top of the  *)
(* loop after the long press on the tuning page that entered calibration,  *)
(* with the button still down, and is followed while the mode is           *)
(* MODE_CALIBRATION                                                        *)

\* the calibration in the settings when calibration is entered: the
\* defaults, or what an earlier calibration left
PriorCalibrations ==
    {[voct_offset |-> Defaults.voct_offset, voct_scale |-> Defaults.voct_scale],
     [voct_offset |-> 310, voct_scale |-> 96000]}

InitCalibration ==
    /\ current_mode = MODE_CALIBRATION
    /\ previous_mode = MODE_PARAMETERS
    /\ current_page = PAGE_TUNING
    /\ previous_page = PAGE_TUNING
    /\ param_catchers_ready = TRUE
    /\ \E prior \in PriorCalibrations :
          settings = [Defaults EXCEPT !.voct_offset = prior.voct_offset,
                                      !.voct_scale = prior.voct_scale]
    /\ play_mode_catchers = BankInit(kCatcherLpCoeff, TRUE)
    /\ page_values = GetPageParameterValues(PAGE_TUNING, Defaults)
    /\ param_mode_catchers =
          [i \in Knobs |->
              OnPageChange(BankInit(kCatcherLpCoeff, FALSE)[i],
                           page_values[i + 1])]
    /\ knob_lp = [i \in Knobs |-> 0]
    /\ patch = [transposition |-> 0, harmonics |-> 500, timbre |-> 500,
                morph |-> 500, engine |-> 0]
    /\ saved_play_mode_values = <<500, 500, 500, 500>>
    /\ led = SetGlobalEngine(LedController, 0)
    /\ button = [b7_pressed |-> TRUE, b7_rising |-> FALSE,
                 b7_falling |-> FALSE, b7_held_long |-> TRUE,
                 b8_pressed |-> TRUE]
    /\ ui = [button_was_pressed |-> TRUE, long_press_triggered |-> TRUE,
             settings_dirty |-> FALSE, cal_step |-> CAL_WAITING_LOW,
             cal_low_voltage |-> 0, cal_high_voltage |-> 0]
    /\ pc = At("loop")
    /\ audio = [NoAudio EXCEPT !.longs = 1, !.reached = TRUE]
    /\ CatcherIdle
    /\ UiIdle

Calibrating == current_mode = MODE_CALIBRATION

NextCalibration ==
    \/ Calibrating /\ AudioCallback
    \/ Calibrating /\ MainLoopTop
    \/ Calibrating /\ ModeTransition
    \/ Calibrating /\ PageTransition
    \/ Calibrating /\ ButtonHold
    \/ Calibrating /\ ButtonRelease

SpecCalibration == InitCalibration /\ [][NextCalibration]_vars

-----------------------------------------------------------------------------
(* plaits_daisy.cpp in Play mode: the run starts at the first iteration of *)
(* main's loop and is followed, through enough presses to wrap the engine  *)
(* and the bank, while the module stays in Play mode                       *)

\* the button is followed for this many presses in Play mode
MaxPlayPresses == 11

InitPlay ==
    /\ DaisyBootWith([NoAudio EXCEPT !.budget = MaxPlayPresses])
    /\ CatcherIdle
    /\ UiIdle

InPlay == current_mode = MODE_PLAY

NextPlay ==
    \/ InPlay /\ AudioCallback
    \/ InPlay /\ MainLoopTop
    \/ InPlay /\ ModeTransition
    \/ InPlay /\ PageTransition
    \/ InPlay /\ ButtonHold
    \/ InPlay /\ ButtonRelease

SpecPlay == InitPlay /\ [][NextPlay]_vars

-----------------------------------------------------------------------------
(* plaits_daisy.cpp on the tuning page: the run starts in Parameters mode  *)
(* on the tuning page with the button up, and is followed while the module *)
(* is on that page or calibrating                                          *)

InitTuning ==
    /\ current_mode = MODE_PARAMETERS
    /\ previous_mode = MODE_PARAMETERS
    /\ current_page = PAGE_TUNING
    /\ previous_page = PAGE_TUNING
    /\ param_catchers_ready = TRUE
    /\ settings = Defaults
    /\ play_mode_catchers = BankInit(kCatcherLpCoeff, TRUE)
    /\ page_values = GetPageParameterValues(PAGE_TUNING, Defaults)
    /\ param_mode_catchers =
          [i \in Knobs |->
              OnPageChange(BankInit(kCatcherLpCoeff, FALSE)[i],
                           page_values[i + 1])]
    /\ knob_lp = [i \in Knobs |-> 0]
    /\ patch = [transposition |-> 0, harmonics |-> 500, timbre |-> 500,
                morph |-> 500, engine |-> 0]
    /\ saved_play_mode_values = <<500, 500, 500, 500>>
    /\ led = SetGlobalEngine(LedController, 0)
    /\ button = [b7_pressed |-> FALSE, b7_rising |-> FALSE,
                 b7_falling |-> FALSE, b7_held_long |-> FALSE,
                 b8_pressed |-> TRUE]
    /\ ui = [button_was_pressed |-> FALSE, long_press_triggered |-> FALSE,
             settings_dirty |-> FALSE, cal_step |-> CAL_WAITING_LOW,
             cal_low_voltage |-> 0, cal_high_voltage |-> 0]
    /\ pc = At("loop")
    /\ audio = NoAudio
    /\ CatcherIdle
    /\ UiIdle

OnTuningPage ==
    \/ current_mode = MODE_CALIBRATION
    \/ current_mode = MODE_PARAMETERS /\ current_page = PAGE_TUNING

NextTuning ==
    \/ OnTuningPage /\ AudioCallback
    \/ OnTuningPage /\ MainLoopTop
    \/ OnTuningPage /\ ModeTransition
    \/ OnTuningPage /\ PageTransition
    \/ OnTuningPage /\ ButtonHold
    \/ OnTuningPage /\ ButtonRelease

SpecTuning == InitTuning /\ [][NextTuning]_vars

-----------------------------------------------------------------------------
(* Properties of one catcher (specification Spec).  Each is a predicate on *)
(* the last call: pre is the catcher before it, kc the catcher after it.   *)

ProcessedIn(state) == call.op = "Process" /\ pre.state_ = state

\* C1: after OnPageChange(v), a Process call made while waiting whose
\* filtered value stays within kMovementThreshold of previous returns
\* exactly v and leaves the state, stored and previous as they were.
C1_WaitingReturnsPageValue ==
    /\ call.op = "OnPageChange" =>
          /\ kc.state_ = KNOB_WAITING
          /\ kc.stored_value_ = call.arg
          /\ pagev = call.arg
    /\ ( /\ ProcessedIn(KNOB_WAITING)
         /\ Abs(kc.filtered_value_ - pre.previous_value_) <= kMovementThreshold )
       => /\ call.out = pagev
          /\ pagev \in PageValues
          /\ kc.state_ = KNOB_WAITING
          /\ kc.stored_value_ = pagev
          /\ pre.stored_value_ = pagev
          /\ kc.previous_value_ = pre.previous_value_

\* a waiting tick on which the filtered value moved, but within the threshold
C1_Witness ==
    /\ ProcessedIn(KNOB_WAITING)
    /\ kc.filtered_value_ # pre.previous_value_
    /\ kc.filtered_value_ # pre.filtered_value_
    /\ Abs(kc.filtered_value_ - pre.previous_value_) <= kMovementThreshold
    /\ call.out = pagev
    /\ kc.state_ = KNOB_WAITING

\* C2: after OnPageChange(v), in whatever state it was called, with the raw
\* ADC reading held constant the catcher stays waiting and every Process
\* call returns v.
C2_HeldKnobKeepsWaiting ==
    held => /\ kc.state_ = KNOB_WAITING
            /\ call.op = "Process" => call.out = pagev

\* C3: OnPageChange(v) leaves the catcher waiting with stored = v and
\* previous equal to the filtered value, from every state.
C3_PageChangeRebasesPrevious ==
    call.op = "OnPageChange" =>
       /\ kc.state_ = KNOB_WAITING
       /\ kc.stored_value_ = call.arg
       /\ kc.previous_value_ = kc.filtered_value_

\* C6: with catch-up enabled, the waiting tick whose filtered value is more
\* than kMovementThreshold from previous starts catching up, sets previous
\* to the filtered value and still returns the unchanged stored value.
C6_MoveStartsCatchUp ==
    ( /\ ProcessedIn(KNOB_WAITING)
      /\ pre.use_catchup_
      /\ Abs(kc.filtered_value_ - pre.previous_value_) > kMovementThreshold )
    => /\ kc.state_ = KNOB_CATCHING_UP
       /\ kc.previous_value_ = kc.filtered_value_
       /\ call.out = pre.stored_value_
       /\ kc.stored_value_ = pre.stored_value_

C6_Witness ==
    /\ ProcessedIn(KNOB_WAITING)
    /\ pre.use_catchup_
    /\ Abs(kc.filtered_value_ - pre.previous_value_) > kMovementThreshold
    /\ kc.state_ = KNOB_CATCHING_UP
    /\ call.out = pre.stored_value_
    /\ call.out # kc.filtered_value_

\* C7 as claimed: while catching up, |stored - filtered| never increases
\* from one Process tick to the next, strictly decreases whenever stored is
\* advanced, and the tick that brings it below kCatchUpThreshold ends in
\* tracking.
C7_DistanceNeverIncreases ==
    ProcessedIn(KNOB_CATCHING_UP) =>
       /\ Abs(kc.stored_value_ - kc.filtered_value_)
             <= Abs(pre.stored_value_ - pre.filtered_value_)
       /\ kc.stored_value_ # pre.stored_value_ =>
             Abs(kc.stored_value_ - kc.filtered_value_)
                < Abs(pre.stored_value_ - pre.filtered_value_)
       /\ Abs(kc.stored_value_ - kc.filtered_value_) < kCatchUpThreshold =>
             kc.state_ = KNOB_TRACKING

\* C7 amended: while catching up, a tick advances stored only when the
\* filtered value is more than kMinDelta from previous; after such a tick
\* |stored - filtered| is at most what |stored - previous| was before it,
\* previous is the filtered value, and the state is tracking exactly when
\* the new distance is below kCatchUpThreshold.  Any other tick leaves
\* stored, previous and the state alone, so that |stored - filtered| may
\* then exceed |stored - previous| by up to kMinDelta.
C7_CatchUpApproaches ==
    ProcessedIn(KNOB_CATCHING_UP) =>
       IF Abs(kc.filtered_value_ - pre.previous_value_) > kMinDelta
       THEN /\ Abs(kc.stored_value_ - kc.filtered_value_)
                  <= Abs(pre.stored_value_ - pre.previous_value_)
            /\ kc.previous_value_ = kc.filtered_value_
            /\ call.out = kc.stored_value_
            /\ kc.state_ = ( IF Abs(kc.stored_value_ - kc.filtered_value_)
                                   < kCatchUpThreshold
                             THEN KNOB_TRACKING ELSE KNOB_CATCHING_UP )
       ELSE /\ kc.stored_value_ = pre.stored_value_
            /\ kc.previous_value_ = pre.previous_value_
            /\ kc.state_ = KNOB_CATCHING_UP
            /\ call.out = pre.stored_value_
            /\ Abs(kc.stored_value_ - kc.filtered_value_)
                  <= Abs(kc.stored_value_ - kc.previous_value_) + kMinDelta

\* a tick that advanced stored, with the catcher still short of the knob
C7_Witness ==
    /\ ProcessedIn(KNOB_CATCHING_UP)
    /\ Abs(kc.filtered_value_ - pre.previous_value_) > kMinDelta
    /\ kc.stored_value_ # pre.stored_value_
    /\ kc.state_ = KNOB_CATCHING_UP
    /\ 0 < Abs(kc.stored_value_ - kc.filtered_value_)
    /\ Abs(kc.stored_value_ - kc.filtered_value_)
          < Abs(pre.stored_value_ - pre.previous_value_)

\* the scenario of C8: stored 0.2, previous 0.2, filtered input stepping to 0.6
C8_StepTick ==
    /\ ProcessedIn(KNOB_WAITING)
    /\ pre.use_catchup_
    /\ pre.stored_value_ = 200
    /\ pre.previous_value_ = 200
    /\ pre.filtered_value_ = 200
    /\ kc.filtered_value_ = 600

\* ... and a later tick with the filtered input held at 0.6
C8_HeldTick ==
    /\ ProcessedIn(KNOB_CATCHING_UP)
    /\ pre.stored_value_ = 200
    /\ pre.previous_value_ = 600
    /\ pre.filtered_value_ = 600
    /\ kc.filtered_value_ = 600

\* C8 as claimed: the step to 0.6 starts catching up, and with the filtered
\* input then held at 0.6 stored keeps advancing toward 0.6 on every tick.
C8_HeldInputKeepsAdvancing ==
    /\ C8_StepTick => kc.state_ = KNOB_CATCHING_UP
    /\ C8_HeldTick => /\ kc.stored_value_ > pre.stored_value_
                      /\ kc.stored_value_ <= 600

\* C8 amended: the step to 0.6 starts catching up with stored still 0.2,
\* and with the filtered input then held at 0.6 every tick leaves the
\* catcher as it was: stored 0.2, output 0.2, state catching up.
C8_HeldInputChangesNothing ==
    /\ C8_StepTick => /\ kc.state_ = KNOB_CATCHING_UP
                      /\ kc.stored_value_ = 200
                      /\ call.out = 200
    /\ C8_HeldTick => /\ kc = pre
                      /\ kc.state_ = KNOB_CATCHING_UP
                      /\ call.out = 200

C8_Witness == C8_HeldTick /\ kc.state_ = KNOB_CATCHING_UP /\ call.out = 200

\* C9: with catch-up disabled, the waiting tick whose filtered value is more
\* than kMovementThreshold from previous returns the filtered value, ends in
\* tracking with previous = filtered, and the catcher is never catching up.
C9_MoveSnapsToTracking ==
    /\ ( /\ ProcessedIn(KNOB_WAITING)
         /\ ~pre.use_catchup_
         /\ Abs(kc.filtered_value_ - pre.previous_value_) > kMovementThreshold )
       => /\ kc.state_ = KNOB_TRACKING
          /\ call.out = kc.filtered_value_
          /\ kc.previous_value_ = kc.filtered_value_
    /\ ~kc.use_catchup_ => kc.state_ # KNOB_CATCHING_UP

C9_Witness ==
    /\ ProcessedIn(KNOB_WAITING)
    /\ ~pre.use_catchup_
    /\ Abs(kc.filtered_value_ - pre.previous_value_) > kMovementThreshold
    /\ kc.state_ = KNOB_TRACKING
    /\ call.out = kc.filtered_value_
    /\ call.out # pre.stored_value_

\* C10: a Process(x) call in tracking returns the new filtered value, stays
\* in tracking and sets previous to it; the filtered value moves toward x
\* without passing it, and strictly closer while it differs from x, so that
\* it reaches x when x is held.
C10_TrackingFollowsInput ==
    ProcessedIn(KNOB_TRACKING) =>
       /\ call.out = kc.filtered_value_
       /\ kc.state_ = KNOB_TRACKING
       /\ kc.previous_value_ = kc.filtered_value_
       /\ (kc.filtered_value_ - call.arg) * (pre.filtered_value_ - call.arg) >= 0
       /\ Abs(kc.filtered_value_ - call.arg) <= Abs(pre.filtered_value_ - call.arg)
       /\ pre.filtered_value_ # call.arg =>
             Abs(kc.filtered_value_ - call.arg)
                < Abs(pre.filtered_value_ - call.arg)

\* a tracking tick of a lagging filter, downward, still short of its input
C10_Witness ==
    /\ ProcessedIn(KNOB_TRACKING)
    /\ Lags(pre)
    /\ call.arg < kc.filtered_value_
    /\ kc.filtered_value_ < pre.filtered_value_
    /\ call.out = kc.filtered_value_

\* C11: from every state ForceTracking sets the state to KNOB_TRACKING and
\* changes no other field, and the Process call that follows it, whatever
\* its reading, returns the filtered input, not the stored value.
C11_ForceTrackingOnlySetsState ==
    call.op = "ForceTracking" =>
       /\ kc = [pre EXCEPT !.state_ = KNOB_TRACKING]
       /\ \A adc \in AdcValues \cup LagAdcValues :
             LET r == Process(kc, adc)
             IN  r.out = r.k.filtered_value_

\* ForceTracking in the middle of a catch-up: the stored value the catcher
\* was returning is not what the next Process returns
C11_Witness ==
    /\ call.op = "ForceTracking"
    /\ pre.state_ = KNOB_CATCHING_UP
    /\ kc.state_ = KNOB_TRACKING
    /\ \A adc \in AdcValues : Process(kc, adc).out # pre.stored_value_

\* C12: a catcher whose use_catchup is false is never KNOB_CATCHING_UP, and
\* KNOB_CATCHING_UP is entered only by a Process call on a waiting catcher
\* whose use_catchup is true.
C12_CatchingUpOnlyWithCatchUp ==
    /\ ~kc.use_catchup_ => kc.state_ # KNOB_CATCHING_UP
    /\ (kc.state_ = KNOB_CATCHING_UP /\ pre.state_ # KNOB_CATCHING_UP)
       => /\ call.op = "Process"
          /\ pre.state_ = KNOB_WAITING
          /\ pre.use_catchup_

\* a catcher without catch-up that was waiting, saw the knob move and was
\* put on a page again
C12_Witness ==
    /\ ~kc.use_catchup_
    /\ call.op = "OnPageChange"
    /\ pre.state_ = KNOB_TRACKING
    /\ pre.stored_value_ \in PageValues
    /\ pre.filtered_value_ # 0
    /\ kc.state_ = KNOB_WAITING

-----------------------------------------------------------------------------
(* Claims about KnobCatcherBank, checked under SpecBank                    *)

\* C13: the bank's Process(i, x) changes catcher i only: every other
\* catcher keeps its state, filtered, stored and previous; the bank's
\* OnPageChange(values) leaves every catcher j in KNOB_WAITING with
\* stored = values[j].
C13_BankCatchersIndependent ==
    /\ bankCall.op = "Process" =>
          \A j \in Knobs \ {bankCall.index} : catchers_[j] = bankPre[j]
    /\ bankCall.op = "OnPageChange" =>
          \A j \in Knobs :
             /\ catchers_[j].state_ = KNOB_WAITING
             /\ catchers_[j].stored_value_ = bankCall.values[j + 1]

\* Process moved one catcher out of waiting while another one kept waiting
\* on a different stored value
C13_Witness ==
    /\ bankCall.op = "Process"
    /\ bankPre[bankCall.index].state_ = KNOB_WAITING
    /\ catchers_[bankCall.index].state_ # KNOB_WAITING
    /\ \E j \in Knobs \ {bankCall.index} :
          /\ catchers_[j].state_ = KNOB_WAITING
          /\ catchers_[j].stored_value_ # bankPre[bankCall.index].stored_value_

-----------------------------------------------------------------------------
(* Claims about CVInput::ProcessWithMapping, checked under SpecCv          *)

CvUnmapped == cvParam.cv_mapping.cv_input < 0

CvContribution ==
    RoundDiv((cvArgs.cv_value - 500) * 2 * cvParam.cv_mapping.attenuverter, One)

\* C14: ProcessWithMapping returns knob_value exactly when the source is
\* unmapped (cv_input < 0) or the mapping is not active, whatever cv_value,
\* the attenuverter and origin_offset are; an unmapped source is inactive
\* even when active is stored true.
C14_InactiveReturnsKnob ==
    (cvResult # NoValue /\ (CvUnmapped \/ ~cvParam.cv_mapping.active))
    => cvResult = cvArgs.knob_value

\* unmapped with active stored true, where the mapping would have given
\* another value
C14_Witness ==
    /\ cvResult # NoValue
    /\ CvUnmapped
    /\ cvParam.cv_mapping.active
    /\ cvResult = cvArgs.knob_value
    /\ Clamp(cvParam.cv_mapping.origin_offset + CvContribution, 0, One)
          # cvArgs.knob_value

\* C15: for an active, mapped parameter with attenuverter 0 the result is
\* origin_offset clamped to [0,1], whatever cv_value and knob_value are.
C15_ZeroAttenuverterReturnsOrigin ==
    ( /\ cvResult # NoValue
      /\ ~CvUnmapped
      /\ cvParam.cv_mapping.active
      /\ cvParam.cv_mapping.attenuverter = 0 )
    => cvResult = Clamp(cvParam.cv_mapping.origin_offset, 0, One)

\* attenuverter 0 with an origin above 1, a CV off centre and a knob elsewhere
C15_Witness ==
    /\ cvResult = One
    /\ ~CvUnmapped
    /\ cvParam.cv_mapping.active
    /\ cvParam.cv_mapping.attenuverter = 0
    /\ cvParam.cv_mapping.origin_offset > One
    /\ cvArgs.cv_value # 500
    /\ cvArgs.knob_value # One

\* C16: for an active, mapped parameter the result is
\* clamp(origin_offset + (cv_value - 0.5) * 2 * attenuverter, 0, 1) and lies
\* in [0,1] for every cv_value in [0,1], attenuverter in [-1,1] and any
\* origin_offset.
C16_ResultClampedToUnitRange ==
    (cvResult # NoValue /\ ~CvUnmapped /\ cvParam.cv_mapping.active)
    => /\ cvResult = Clamp(cvParam.cv_mapping.origin_offset + CvContribution,
                           0, One)
       /\ 0 <= cvResult
       /\ cvResult <= One

\* origin 0 with a negative contribution: the sum is below 0, the result is 0
C16_Witness ==
    /\ cvResult = 0
    /\ ~CvUnmapped
    /\ cvParam.cv_mapping.active
    /\ cvParam.cv_mapping.origin_offset + CvContribution < 0
    /\ cvParam.cv_mapping.attenuverter # 0

-----------------------------------------------------------------------------
(* Claims about plaits/main.cpp and PlaitsPort, checked under SpecPlaits   *)

\* how far the knob value the callback read for parameter i is from the
\* normalized value the parameter had before the callback
KnobDistance(i) ==
    Abs(GetFiltered(cv_inputs, port.pre[i].cv_mapping.cv_input)
          - GetNormalized(port.pre[i]))

CvDriven(i) ==
    port.pre[i].cv_mapping.active /\ port.pre[i].cv_mapping.cv_input >= 0

\* C17: when the audio callback writes a CV-derived normalized value into a
\* parameter with threshold 0.001, the parameter's value changes only if the
\* new normalized value differs from the parameter's normalized value by
\* more than the threshold; otherwise the value is as it was.
C17_HysteresisHoldsSmallChanges ==
    port.op = "AudioCallback" =>
       \A i \in ParamIndex :
          (CvDriven(i) /\ KnobDistance(i) <= kHysteresis)
          => params_[i].value = port.pre[i].value

\* a callback whose knob value is one step of 0.001 away from a parameter,
\* which keeps its value, while another parameter follows its knob
C17_Witness ==
    /\ port.op = "AudioCallback"
    /\ \E i \in ParamIndex :
          /\ CvDriven(i)
          /\ KnobDistance(i) = kHysteresis
          /\ params_[i].value = port.pre[i].value
    /\ \E j \in ParamIndex :
          /\ CvDriven(j)
          /\ KnobDistance(j) > kHysteresis
          /\ params_[j].value # port.pre[j].value

\* C18: every parameter has min <= value <= max after construction and
\* after any sequence of SetNormalized calls (arguments outside [0,1]
\* included), EditValue rotations, SetupParameters and engine-list
\* replacements driven by the bank.
C18_ValueWithinRange ==
    \A i \in ParamIndex :
       /\ params_[i].min <= params_[i].value
       /\ params_[i].value <= params_[i].max

\* SetNormalized(1.5) left a parameter at its max after the bank had been
\* edited and the engine list replaced
C18_Witness ==
    /\ port.op = "SetNormalized"
    /\ port.arg[2] > One
    /\ params_[port.arg[1]].value = params_[port.arg[1]].max
    /\ port.pre[port.arg[1]].value < params_[port.arg[1]].max
    /\ current_bank_ # 0

-----------------------------------------------------------------------------
(* Claims about catch-up, checked under SpecCatchUp                        *)

\* C30: a catcher in KNOB_CATCHING_UP reaches KNOB_TRACKING whenever the
\* knob keeps moving in one direction, each tick moving the filtered value
\* by more than 0.005, until the filtered value reaches the end of travel:
\* it is never left in KNOB_CATCHING_UP with the knob at the end of travel.
C30_CatchUpReachesTracking ==
    ( /\ call.phase = "sweep"
      /\ call.op = "Process"
      /\ call.steady
      /\ pre.state_ = KNOB_CATCHING_UP
      /\ kc.filtered_value_ = (IF call.dir > 0 THEN One ELSE 0) )
    => kc.state_ = KNOB_TRACKING

-----------------------------------------------------------------------------
(* Claims about Parameter, checked under SpecParameter                     *)

\* C19: for a parameter with max = min, GetNormalized returns 0 and
\* SetNormalized(n), for any n, leaves value equal to min.
C19_FlatRangeIsDefined ==
    parameter.max = parameter.min =>
       /\ GetNormalized(parameter) = 0
       /\ paramCall.op = "GetNormalized" => paramCall.out = 0
       /\ paramCall.op = "SetNormalized" => parameter.value = parameter.min

\* SetNormalized(1.5) on a parameter whose range is the single point 0.5
C19_Witness ==
    /\ parameter.max = parameter.min
    /\ parameter.min = 500
    /\ paramCall.op = "SetNormalized"
    /\ paramCall.arg = 1500
    /\ parameter.value = 500

-----------------------------------------------------------------------------
(* Claims about MenuState, checked under SpecMenu                          *)

\* C20: for every param_count >= 1 and after any sequence of NextParam and
\* PrevParam from the initial MenuState, 0 <= selected_param < param_count
\* and selected_param - VISIBLE_PARAMS < scroll_offset <= selected_param;
\* NextParam from the last index selects 0 and PrevParam from 0 selects the
\* last index.
C20_SelectionAndScrollInRange ==
    /\ 0 <= menu.selected_param
    /\ menu.selected_param < menu.param_count
    /\ menu.selected_param - VISIBLE_PARAMS < menu.scroll_offset
    /\ menu.scroll_offset <= menu.selected_param
    /\ ( /\ menuCall.op = "NextParam"
         /\ menuPre.selected_param = menuPre.param_count - 1 )
       => menu.selected_param = 0
    /\ (menuCall.op = "PrevParam" /\ menuPre.selected_param = 0)
       => menu.selected_param = menu.param_count - 1

\* PrevParam from the first of more parameters than the window shows
C20_Witness ==
    /\ menuCall.op = "PrevParam"
    /\ menuPre.selected_param = 0
    /\ menu.param_count > VISIBLE_PARAMS + 1
    /\ menu.selected_param = menu.param_count - 1
    /\ menu.scroll_offset = menu.param_count - VISIBLE_PARAMS

\* a NextParam or PrevParam that did not wrap around
MovedWithoutWrap ==
    \/ /\ menuCall.op = "NextParam"
       /\ menuPre.selected_param + 1 < menuPre.param_count
    \/ /\ menuCall.op = "PrevParam"
       /\ menuPre.selected_param - 1 >= 0

\* C21: a NextParam/PrevParam that does not wrap changes scroll_offset only
\* when the new selection is outside [scroll_offset, scroll_offset + 4),
\* and then to put the selection on the nearer window edge; with 9
\* parameters the first three NextParam calls select 1, 2, 3 with offset 0
\* and the fourth selects 4 with offset 1.
C21_ScrollIsMinimal ==
    /\ MovedWithoutWrap =>
          /\ ( /\ menu.selected_param >= menuPre.scroll_offset
               /\ menu.selected_param < menuPre.scroll_offset + VISIBLE_PARAMS )
             => menu.scroll_offset = menuPre.scroll_offset
          /\ menu.selected_param < menuPre.scroll_offset
             => menu.scroll_offset = menu.selected_param
          /\ menu.selected_param >= menuPre.scroll_offset + VISIBLE_PARAMS
             => menu.scroll_offset = menu.selected_param - VISIBLE_PARAMS + 1
    /\ ( /\ menuCall.op = "NextParam"
         /\ menu.param_count = 9
         /\ menuCall.run \in 1 .. 4 )
       => /\ menu.selected_param = menuCall.run
          /\ menu.scroll_offset = IF menuCall.run = 4 THEN 1 ELSE 0

\* the fourth NextParam of the scenario
C21_Witness ==
    /\ menuCall.op = "NextParam"
    /\ menu.param_count = 9
    /\ menuCall.run = 4
    /\ menu.selected_param = 4
    /\ menu.scroll_offset = 1
    /\ menuPre.scroll_offset = 0

\* the larger of two integers
Max(a, b) == IF a >= b THEN a ELSE b

\* C40: for param_count >= 1 and after any sequence of NextParam and
\* PrevParam, 0 <= scroll_offset <= max(0, param_count - VISIBLE_PARAMS), so
\* that with at least VISIBLE_PARAMS parameters the menu renders the full
\* window scroll_offset .. scroll_offset + VISIBLE_PARAMS - 1, all of them
\* existing parameters
C40_ScrollOffsetBounded ==
    /\ 0 <= menu.scroll_offset
    /\ menu.scroll_offset <= Max(0, menu.param_count - VISIBLE_PARAMS)
    /\ RenderMenu(menu) \subseteq 0..(menu.param_count - 1)
    /\ menu.param_count >= VISIBLE_PARAMS
       => RenderMenu(menu) =
             menu.scroll_offset..(menu.scroll_offset + VISIBLE_PARAMS - 1)

\* PrevParam from the first of fewer parameters than the window shows
C40_Witness ==
    /\ menuCall.op = "PrevParam"
    /\ menuPre.selected_param = 0
    /\ menu.param_count > 1
    /\ menu.param_count < VISIBLE_PARAMS
    /\ menu.selected_param = menu.param_count - 1
    /\ menu.scroll_offset = 0

-----------------------------------------------------------------------------
(* Claims about UpdateEncoder, checked under SpecEncoder                   *)

\* the iteration that saw the switch come up after a press held longer
\* than LONG_PRESS_MS / after a shorter press
LongPressEnded == encoder.event = "release" /\ encoder.elapsed
ShortPressEnded == encoder.event = "release" /\ ~encoder.elapsed

\* C22: a long press (held longer than LONG_PRESS_MS, then released) that
\* starts while the menu is in Navigate ends with the menu in Submenu, with
\* submenu_param_index the parameter that was selected and
\* selected_submenu_item = CVSource.
C22_LongPressOpensSubmenu ==
    (LongPressEnded /\ encoder.from.state = Navigate)
    => /\ menu.state = Submenu
       /\ menu.submenu_param_index = menuPre.selected_param
       /\ menu.selected_submenu_item = "CVSource"

\* no iteration of the press so far saw a rotation
PressOnly == ~encoder.turned

\* C23: a short press in Navigate puts the menu in EditValue for the
\* selected parameter and a short press in EditValue returns it to
\* Navigate; neither changes selected_param, scroll_offset or any
\* parameter value.
C23_ShortPressTogglesEdit ==
    /\ (ShortPressEnded /\ PressOnly) =>
          /\ encoder.from.state = Navigate => menu.state = EditValue
          /\ encoder.from.state = EditValue => menu.state = Navigate
          /\ encoder.from.state \in {Navigate, EditValue} =>
                /\ menu.selected_param = encoder.from.selected_param
                /\ menu.scroll_offset = encoder.from.scroll_offset
    /\ (encoder.event \in {"press", "hold", "release"} /\ PressOnly)
       => params_ = port.pre

\* a short press that ended the editing of a parameter other than the first
C23_Witness ==
    /\ ShortPressEnded
    /\ PressOnly
    /\ encoder.from.state = EditValue
    /\ encoder.from.selected_param > 0
    /\ menu.state = Navigate
    /\ menu.selected_param = encoder.from.selected_param

\* C24: a long press while in Submenu returns the menu to Navigate with
\* submenu_param_index = -1 and leaves selected_param and scroll_offset
\* unchanged; no other input leaves Submenu.
C24_LongPressLeavesSubmenu ==
    /\ (LongPressEnded /\ encoder.from.state = Submenu) =>
          /\ menu.state = Navigate
          /\ menu.submenu_param_index = 0 - 1
          /\ menu.selected_param = encoder.from.selected_param
          /\ menu.scroll_offset = encoder.from.scroll_offset
    /\ ( /\ menuCall.op = "UpdateEncoder"
         /\ menuPre.state = Submenu
         /\ menu.state # Submenu )
       => (LongPressEnded /\ encoder.from.state = Submenu)

\* a long press that closed the submenu of a parameter other than the first
C24_Witness ==
    /\ LongPressEnded
    /\ encoder.from.state = Submenu
    /\ encoder.from.submenu_param_index > 0
    /\ menu.state = Navigate
    /\ menu.submenu_param_index = 0 - 1

\* the step the claim gives for a parameter type
StepOfType(type) ==
    IF type \in {Continuous, "Bipolar"} THEN 10 ELSE One

\* an iteration that saw a rotation and no press while editing a value
RotatedInEditValue ==
    /\ menuCall.op = "UpdateEncoder"
    /\ menuPre.state = EditValue
    /\ menuCall.encoder_increment # 0
    /\ ~menuCall.encoder_button

\* C25: in EditValue a rotation of d detents changes only the selected
\* parameter's value, to clamp(value + d*step, min, max) with step 0.01 for
\* Continuous/Bipolar and 1 for Enum/Integer; selected_param,
\* scroll_offset, the menu state and every other parameter are unchanged.
C25_RotationEditsSelected ==
    RotatedInEditValue =>
       LET i == menuPre.selected_param
           p == port.pre[i]
           d == menuCall.encoder_increment
       IN  /\ params_ =
                 [port.pre EXCEPT ![i] =
                     [p EXCEPT !.value =
                         Clamp(p.value + d * StepOfType(p.type), p.min, p.max)]]
           /\ menu = menuPre

\* a rotation that moves the Engine parameter, an enumerated one, up by 1
C25_Witness ==
    /\ RotatedInEditValue
    /\ menuPre.selected_param = 1
    /\ port.pre[1].type = Enum
    /\ menuCall.encoder_increment > 0
    /\ params_[1].value = port.pre[1].value + One

\* C26: in Submenu/SubmenuEdit a rotation moves selected_submenu_item to
\* another of CVSource, Attenuverter, CaptureOrigin, and a press in Submenu
\* enters SubmenuEdit (from which a press commits the edit to the
\* parameter's cv_mapping).
C26_SubmenuHandlesInput ==
    (menuCall.op = "UpdateEncoder" /\ menuPre.state = Submenu) =>
       /\ menuCall.encoder_increment # 0
          => /\ menu.selected_submenu_item # menuPre.selected_submenu_item
             /\ menu.selected_submenu_item
                   \in {"CVSource", "Attenuverter", "CaptureOrigin"}
       /\ (menuCall.encoder_button /\ menuCall.encoder_increment = 0)
          => menu.state = SubmenuEdit

-----------------------------------------------------------------------------
(* Claims about CVInput::Filter, checked under SpecFilterFair              *)

\* what Filter returned for each channel agrees with the claim's snapping
\* and lies in [0,1]
FilterReturnsSnapped ==
    \A i \in Channels :
       LET state == cv_inputs.filters_[i]
           output == cv_inputs.filtered_values_[i]
       IN  /\ 0 <= output /\ output <= One
           /\ state < 10 => output = 0
           /\ state > 990 => output = One
           /\ (state >= 10 /\ state <= 990) => output = state

\* C27: Filter always returns a value in [0,1], exactly 0.0 whenever its
\* filtered state is below 0.01 and exactly 1.0 whenever it is above 0.99;
\* with the raw input held at or below 0.025 it eventually returns exactly
\* 0.0, and held at or above 0.97 it eventually returns exactly 1.0.
C27_FilterSnapsAndReachesEdges ==
    /\ []FilterReturnsSnapped
    /\ <>(port.op = "Filter" /\ cv_inputs.filtered_values_[1] = 0)
    /\ <>(port.op = "Filter" /\ cv_inputs.filtered_values_[2] = One)

\* a filter that started at 1.0 has come down to a state below 0.01 but
\* above 0 and returns 0.0, while one that started there has risen above
\* 0.99 and returns 1.0
C27_Witness ==
    /\ port.op = "Filter"
    /\ cv_inputs.filters_[1] > 0
    /\ cv_inputs.filters_[1] < 10
    /\ cv_inputs.filtered_values_[1] = 0
    /\ cv_inputs.filters_[2] > 990
    /\ cv_inputs.filtered_values_[2] = One

-----------------------------------------------------------------------------
(* Claims about the calibration captures, checked under SpecCalibration    *)

\* the second capture has been taken; audio.cal_prior holds the
\* voct_offset and voct_scale it found in the settings
SecondCaptureTaken == audio.cal_prior # <<>>

CapturedDelta == ui.cal_high_voltage - ui.cal_low_voltage

\* C28: when the second capture gives adc_delta = high - low outside the
\* open interval (0.05, 0.5), voct_offset and voct_scale keep their prior
\* values and nothing is saved; when inside, voct_scale = 24/adc_delta and
\* voct_offset = low - adc_delta/2 are set and saved; in both cases
\* cal_step becomes CAL_DONE.
C28_InvalidCalibrationKeepsPrior ==
    SecondCaptureTaken =>
       /\ ui.cal_step = CAL_DONE
       /\ IF CapturedDelta > 50 /\ CapturedDelta < 500
          THEN /\ settings.voct_scale = RoundDiv(24 * One * One, CapturedDelta)
               /\ settings.voct_offset
                     = ui.cal_low_voltage - RoundDiv(CapturedDelta, 2)
               /\ audio.save = "calibration"
          ELSE /\ <<settings.voct_offset, settings.voct_scale>> = audio.cal_prior
               /\ audio.save = "none"

\* a second capture exactly 0.05 above the first, after an earlier
\* calibration that differs from the defaults
C28_Witness ==
    /\ SecondCaptureTaken
    /\ CapturedDelta = 50
    /\ ui.cal_step = CAL_DONE
    /\ settings.voct_scale = 96000
    /\ settings.voct_offset = 310
    /\ audio.save = "none"

-----------------------------------------------------------------------------
(* Claims about plaits_daisy.cpp, checked under SpecDaisy                  *)

\* C29: every detected transition from Parameters mode to Play mode calls
\* storage.Save() exactly once and clears settings_dirty, and a transition
\* from Play to Parameters mode performs no save.  audio.entered is the
\* transition the current iteration of the loop detected, audio.saves the
\* calls of storage.Save() in this iteration.
C29_SaveOnLeavingParameters ==
    pc.at = "page_transition" =>
       /\ audio.entered = "play" =>
             /\ audio.saves = 1
             /\ ~ui.settings_dirty
             /\ previous_mode = MODE_PLAY
       /\ audio.entered = "params" =>
             /\ audio.saves = 0
             /\ previous_mode = MODE_PARAMETERS

\* Play mode is entered after the envelope mode was cycled in Parameters
\* mode, which had set settings_dirty
C29_Witness ==
    /\ pc.at = "page_transition"
    /\ audio.entered = "play"
    /\ audio.saves = 1
    /\ ~ui.settings_dirty
    /\ settings.envelope_mode # Defaults.envelope_mode

\* C31: when Play mode is entered from Parameters mode, the values handed to
\* play_mode_catchers.OnPageChange are the four play values of the last run
\* of the audio callback's Play branch before Play mode was left.
\* audio.last_play is GetPlayModeParameterValues as of that run (the boot
\* values before the first one).
C31_PlayValuesSurviveParameters ==
    pc.at = "enter_play_seed" => saved_play_mode_values = audio.last_play

\* C32: after Parameters mode is entered or the page is switched, and while
\* no knob moves, every settings field of the shown page keeps the value it
\* had before the switch.  audio.shown is the settings record at the switch
\* (line 663 changing the mode to Parameters, or line 786 changing the page),
\* audio.moved whether a raw knob reading has changed since.
C32_PageValuesRoundTrip ==
    ( /\ current_mode = MODE_PARAMETERS
      /\ audio.shown # <<>>
      /\ ~audio.moved )
    => \A f \in PageFields(current_page) : settings[f] = audio.shown[f]

\* C33: once the long press on the attenuverter page has re-seeded all four
\* catchers and the audio callback has run once more, fm_amount,
\* timbre_mod_amount, morph_mod_amount and harmonics_mod_amount are 0, and
\* stay 0 while no parameter-mode catcher has seen its knob move.
\* audio.reset is "ticked" from the first callback after the handler.
C33_ResetZeroesAttenuverters ==
    ( /\ audio.reset = "ticked"
      /\ \A i \in Knobs : param_mode_catchers[i].state_ = KNOB_WAITING )
    => \A f \in PageFields(PAGE_ATTENUVERTERS) : settings[f] = 0

\* C34: param_catchers_ready, cleared by a short press in Parameters mode, is
\* set again before the main loop next reaches its button handling in
\* Parameters (or calibration) mode, whether that is the next iteration or,
\* after a stay in Play mode, the iteration that enters Parameters mode
\* again; so the audio callback's Parameters branch finds the flag false
\* only between the short press and line 711 of the following iteration, or
\* between lines 663 and 693 of the iteration that enters Parameters mode.
C34_ReadyRestoredNextIteration ==
    /\ (pc.at \in {"buttons", "reset_seed", "falling"}
          /\ current_mode # MODE_PLAY)
       => param_catchers_ready
    /\ (current_mode # MODE_PLAY /\ ~param_catchers_ready)
       => /\ current_page # previous_page
          /\ pc.at \in {"loop", "mode_transition", "enter_params_get",
                        "enter_params_seed", "enter_params_ready",
                        "page_transition", "page_seed", "page_ready"}

\* the callback ran its Parameters branch with the flag false after a short
\* press, and the next iteration has seeded the new page and set the flag
C34_Witness ==
    /\ pc.at = "buttons"
    /\ current_mode = MODE_PARAMETERS
    /\ current_page = PAGE_LPG_ENVELOPE
    /\ previous_page = PAGE_LPG_ENVELOPE
    /\ param_catchers_ready
    /\ audio.blocked

\* C35: a hold of B7 triggers at most one long-press action; when the hold
\* has been released and the release handled, a hold that reached
\* kLongPressThresholdMs has triggered exactly one long-press action and
\* no short-press action, and a hold released earlier exactly one
\* short-press action and no long-press action.  audio.longs and
\* audio.shorts count the actions of the current hold, audio.reached is
\* whether TimeHeldMs() reached the threshold while the button was down.
C35_OneActionPerHold ==
    /\ audio.longs <= 1
    /\ (pc.at = "loop" /\ button.b7_falling)
       => IF audio.reached
          THEN audio.longs = 1 /\ audio.shorts = 0
          ELSE audio.longs = 0 /\ audio.shorts = 1

\* a hold in Play mode that changed the bank has been released, and the
\* engine within the bank is the one before the hold
C35_Witness ==
    /\ pc.at = "loop"
    /\ button.b7_falling
    /\ audio.reached
    /\ audio.longs = 1
    /\ audio.shorts = 0
    /\ led.engine_ = 0
    /\ led.bank_ = 1

\* the step runs the long-press action, or the short-press action
LongPressActed == audio'.longs = audio.longs + 1

ShortPressActed == audio'.shorts = audio.shorts + 1

\* C36: calibration is entered only by a long press on the tuning page in
\* Parameters mode and starts at CAL_WAITING_LOW; a short press advances
\* CAL_WAITING_LOW -> CAL_WAITING_HIGH -> CAL_DONE -> Parameters mode, a long
\* press leaves for Parameters mode from any step, and the mode detection at
\* the top of the loop leaves the mode alone while calibrating, whatever the
\* toggle does
C36_CalibrationSteps ==
    /\ (current_mode # MODE_CALIBRATION /\ current_mode' = MODE_CALIBRATION)
       => /\ current_mode = MODE_PARAMETERS
          /\ current_page = PAGE_TUNING
          /\ LongPressActed
          /\ ui'.cal_step = CAL_WAITING_LOW
    /\ (current_mode = MODE_CALIBRATION /\ ShortPressActed)
       => /\ ui.cal_step = CAL_WAITING_LOW
             => ui'.cal_step = CAL_WAITING_HIGH /\ current_mode' = MODE_CALIBRATION
          /\ ui.cal_step = CAL_WAITING_HIGH
             => ui'.cal_step = CAL_DONE /\ current_mode' = MODE_CALIBRATION
          /\ ui.cal_step = CAL_DONE
             => ui'.cal_step = CAL_DONE /\ current_mode' = MODE_PARAMETERS
    /\ (current_mode = MODE_CALIBRATION /\ LongPressActed)
       => current_mode' = MODE_PARAMETERS
    /\ (current_mode = MODE_CALIBRATION /\ ~ShortPressActed /\ ~LongPressActed)
       => current_mode' = MODE_CALIBRATION /\ ui'.cal_step = ui.cal_step

InSync(p, l) ==
    /\ p.engine = GetGlobalEngine(l)
    /\ p.engine = l.bank_ * kEnginesPerBank + l.engine_
    /\ p.engine \in 0..(kTotalEngines - 1)

C38_EngineSteps ==
    /\ InSync(patch, led)
    /\ InSync(patch', led')
    /\ (current_mode = MODE_PLAY /\ ShortPressActed)
       => /\ led'.engine_ = IF led.engine_ = kEnginesPerBank - 1 THEN 0
                            ELSE led.engine_ + 1
          /\ NextEngineWrapped(led) <=> led'.engine_ = 0
          /\ led' = [led EXCEPT !.engine_ = led'.engine_]
    /\ (current_mode = MODE_PLAY /\ LongPressActed)
       => /\ led'.bank_ = IF led.bank_ = kNumBanks - 1 THEN 0
                          ELSE led.bank_ + 1
          /\ led'.engine_ = led.engine_
          /\ led'.bank_indication_active_
    /\ ~(current_mode = MODE_PLAY /\ (ShortPressActed \/ LongPressActed))
       => led'.engine_ = led.engine_ /\ led'.bank_ = led.bank_

C38_EngineFollowsLed == [][C38_EngineSteps]_vars

\* the engine and the bank have both gone round once
C38_Witness ==
    /\ audio.presses = kEnginesPerBank + kNumBanks
    /\ led.engine_ = 0
    /\ led.bank_ = 0
    /\ patch.engine = 0
    /\ pc.at = "loop"

\* C37: when UpdatePatchFromParams finds the Bank parameter's index different
\* from current_bank_, the Engine parameter is replaced by a fresh one with
\* index 0 and the labels of the new bank; when the bank is unchanged the
\* Engine parameter is left as it was; and the patch engine lies in 8..15
\* for bank 0, 16..23 for bank 1 and 0..7 for bank 2, three disjoint ranges
\* inside 0..23
EngineLabels(bank) ==
    CASE bank = 0 -> "synth_engine_names_"
      [] bank = 1 -> "drum_engine_names_"
      [] bank = 2 -> "new_engine_names_"

EngineRange(bank) ==
    CASE bank = 0 -> 8..15
      [] bank = 1 -> 16..23
      [] bank = 2 -> 0..7

C37_BankSteps ==
    port'.ticks = port.ticks + 1
    => LET entering == WriteCvParams(params_, cv_inputs')
           bank == GetIndex(entering[0])
       IN  /\ bank \in 0..2
           /\ current_bank_' = bank
           /\ bank # current_bank_
              => /\ params_'[1] = EnumParameter(EngineLabels(bank), 8)
                 /\ GetIndex(params_'[1]) = 0
           /\ bank = current_bank_ => params_'[1] = entering[1]
           /\ \A i \in ParamIndex \ {1} : params_'[i] = entering[i]
           /\ patch_'.engine \in EngineRange(bank)
           /\ patch_'.engine = GetActualEngineIndex(bank, GetIndex(params_'[1]))
           /\ \A b \in 0..2, e \in 0..7 :
                 /\ GetActualEngineIndex(b, e) \in EngineRange(b)
                 /\ GetActualEngineIndex(b, e) \in 0..23
                 /\ \A c \in 0..2, f \in 0..7 :
                       GetActualEngineIndex(b, e) = GetActualEngineIndex(c, f)
                       => b = c /\ e = f

C39_InRange ==
    /\ kc.stored_value_ \in 0..One
    /\ call.op = "Process" => call.out \in 0..One

\* a catch-up step that would have carried the stored value past 1 and was
\* clamped
C39_Witness ==
    /\ call.op = "Process"
    /\ pre.state_ = KNOB_CATCHING_UP
    /\ pre.stored_value_ < One
    /\ kc.stored_value_ = One
    /\ call.out = One
    /\ call.arg = One

\* C4: from the moment the mode or the page changes until OnPageChange has
\* re-seeded all four parameter-mode catchers and param_catchers_ready is
\* set, no run of the audio callback writes a settings field.  audio.stale
\* is set by the step that changes the mode to Parameters or the page, and
\* cleared by the step that sets param_catchers_ready after the seeding;
\* audio.raced records that the last callback wrote settings while it was set.
C4_NoWriteBeforeSeeding == ~audio.raced

\* C5: the audio callback and the main loop never both write the same
\* settings field.  audio.by_audio and audio.by_main collect the fields each
\* of them has assigned.
C5_NoFieldHasTwoWriters == audio.by_audio \cap audio.by_main = {}

=============================================================================
